---- MODULE Spec2Model ----
(***************************************************************************)
(* Farmer responsibility attribution of ETL-Gamma                          *)
(* (src/utils/client_responsibility.py).                                   *)
(*                                                                         *)
(* The warehouse tables gammadata.clients and gammadata.client_transfers   *)
(* are the state the resolver reads.  get_client_farmer_periods is one SQL *)
(* query (three clauses, UNION ALL, optional date restriction, ORDER BY);  *)
(* get_responsible_farmer and filter_data_by_responsibility are the pandas *)
(* code on top of its result.  Each call is one action; its arguments and  *)
(* what it returned are kept in op / args / outcome / ret.  The resolver   *)
(* keeps no state between calls (nothing is cached, the tables are only    *)
(* read), so a behaviour is one call made on one database snapshot.        *)
(*                                                                         *)
(* Dates are day numbers.  NULL stands for SQL NULL, pandas NaT/NaN and    *)
(* Python None.  The farmer_name column (LEFT JOIN gammadata.employees, on *)
(* the key employee_id) adds no row and removes none and is left out.      *)
(***************************************************************************)
EXTENDS Integers, Sequences, FiniteSets, TLC

VARIABLES clients, transfers, op, args, outcome, ret,
          table, load, job,
          db, imp

\* The resolver's tables and its last call; the destination table of a KPI
\* job, the last call of its loader and the run of its main; the Serasa
\* table and the run of the batch import.
resolverVars == <<clients, transfers, op, args, outcome, ret>>
jobVars == <<table, load, job>>
importVars == <<db, imp>>
vars == <<clients, transfers, op, args, outcome, ret, table, load, job, db, imp>>

NULL == 0

\* Bounds of the model.
MaxDate == 4
MaxTransfers == 2
MaxRecords == 2

\* The clients of gammadata.clients, and a client_id that has no row there.
ClientIds == {1}
UnknownClients == {2}
Farmers == {1, 2}
Dates == 1..MaxDate
CreationDates == {2}
TransferTypes == {"FARMER", "OFFICE"}

----------------------------------------------------------------------------
(* Helpers on sets and sequences.                                          *)

Min(S) == CHOOSE x \in S : \A y \in S : x <= y
Max(S) == CHOOSE x \in S : \A y \in S : x >= y

RECURSIVE SetToSeq(_)
SetToSeq(S) ==
    IF S = {} THEN <<>>
    ELSE LET x == CHOOSE y \in S : TRUE IN <<x>> \o SetToSeq(S \ {x})

RECURSIVE SubsetsUpTo(_, _)
SubsetsUpTo(S, k) ==
    IF k = 0 THEN {{}}
    ELSE LET P == SubsetsUpTo(S, k - 1)
         IN  P \cup {p \cup {x} : p \in P, x \in S}

RECURSIVE SeqsUpTo(_, _)
SeqsUpTo(S, k) ==
    IF k = 0 THEN {<<>>}
    ELSE LET P == SeqsUpTo(S, k - 1)
         IN  P \cup {Append(p, x) : p \in P, x \in S}

RemoveAt(s, i) == [j \in 1..(Len(s) - 1) |-> IF j < i THEN s[j] ELSE s[j + 1]]

----------------------------------------------------------------------------
(* The warehouse tables.                                                   *)

\* gammadata.clients: client_id -> (farmer_id, creation_date).
ClientTables ==
    [ClientIds -> [farmer_id : Farmers, creation_date : CreationDates]]

\* gammadata.client_transfers: one row per reassignment.  A row names at
\* least one farmer.
TransferRows ==
    {t \in [client_id : ClientIds,
            old_farmer_id : Farmers \cup {NULL},
            new_farmer_id : Farmers \cup {NULL},
            transfer_date : Dates,
            transfer_type : TransferTypes] :
        ~(t.old_farmer_id = NULL /\ t.new_farmer_id = NULL)}

IsFarmerTransfer(t) == t.transfer_type = "FARMER"

FarmerTransfersOf(tr, c) ==
    {t \in tr : t.client_id = c /\ IsFarmerTransfer(t)}

----------------------------------------------------------------------------
(* get_client_farmer_periods: the SQL query.  A period row is              *)
(* (client_id, farmer_id, start_date, end_date).  WHERE is applied before  *)
(* the window functions, so LEAD and LAG see only the rows their clause's  *)
(* WHERE keeps.                                                            *)

PeriodRow(c, f, s, e) ==
    [client_id |-> c, farmer_id |-> f, start_date |-> s, end_date |-> e]

\* Scalar subquery (SELECT creation_date FROM gammadata.clients WHERE
\* client_id = ...): NULL when the client has no row.
CreationDateOf(cl, c) ==
    IF c \in DOMAIN cl THEN cl[c].creation_date ELSE NULL

\* The window both transfer clauses use, PARTITION BY client_id ORDER BY
\* transfer_date, over the rows T their WHERE keeps: every sequence of the
\* rows in which the rows of one client are together, in ascending
\* transfer_date.  Rows of one client with the same transfer_date come in
\* any order: SQL leaves it to the database.
RECURSIVE WindowOrders(_)
WindowOrders(T) ==
    IF T = {} THEN {<<>>}
    ELSE LET firsts ==
                 {t \in T : \A u \in T :
                     \/ t.client_id < u.client_id
                     \/ /\ t.client_id = u.client_id
                        /\ t.transfer_date <= u.transfer_date}
         IN  UNION {{<<t>> \o rest : rest \in WindowOrders(T \ {t})} :
                    t \in firsts}

\* LEAD(transfer_date) of row i of the ordered rows w: the transfer_date of
\* the next row of its partition, whatever its date, else NULL.
Lead(w, i) ==
    IF i < Len(w) /\ w[i + 1].client_id = w[i].client_id
    THEN w[i + 1].transfer_date
    ELSE NULL

\* LAG(transfer_date) of row i of the ordered rows w: the transfer_date of
\* the previous row of its partition, else NULL.
Lag(w, i) ==
    IF i > 1 /\ w[i - 1].client_id = w[i].client_id
    THEN w[i - 1].transfer_date
    ELSE NULL

Coalesce(a, b) == IF a # NULL THEN a ELSE b

\* client_original_farmers with NOT EXISTS over transfers of any type.
client_original_farmers_any_type(cl, tr) ==
    LET C == {c \in DOMAIN cl : ~\E ct \in tr : ct.client_id = c}
        cs == SetToSeq(C)
    IN  [i \in 1..Len(cs) |->
            PeriodRow(cs[i], cl[cs[i]].farmer_id, cl[cs[i]].creation_date, NULL)]

\* CTE client_original_farmers: the clients with no FARMER transfer.
client_original_farmers(cl, tr) ==
    LET C == {c \in DOMAIN cl :
                ~\E ct \in tr : ct.client_id = c /\ ct.transfer_type = "FARMER"}
        row(c) == PeriodRow(c, cl[c].farmer_id, cl[c].creation_date, NULL)
        cs == SetToSeq(C)
    IN  [i \in 1..Len(cs) |-> row(cs[i])]

\* client_transfer_periods_new over the transfers of any type.
client_transfer_periods_new_any_type(tr) ==
    LET T == {t \in tr : t.new_farmer_id # NULL}
    IN  {[i \in 1..Len(w) |->
            PeriodRow(w[i].client_id, w[i].new_farmer_id,
                      w[i].transfer_date, Lead(w, i))] : w \in WindowOrders(T)}

\* CTE client_transfer_periods_new: one row per FARMER transfer with a new
\* farmer, open until the next such transfer.  One element per outcome of
\* the window.
client_transfer_periods_new(tr) ==
    LET T == {t \in tr : t.new_farmer_id # NULL /\ t.transfer_type = "FARMER"}
    IN  {[i \in 1..Len(w) |->
            PeriodRow(w[i].client_id, w[i].new_farmer_id,
                      w[i].transfer_date, Lead(w, i))] : w \in WindowOrders(T)}

\* CTE client_transfer_periods_old: one row per FARMER transfer with an old
\* farmer, from the previous such transfer (or the client's creation).  One
\* element per outcome of the window.
client_transfer_periods_old(cl, tr) ==
    LET T == {t \in tr : t.old_farmer_id # NULL /\ t.transfer_type = "FARMER"}
    IN  {[i \in 1..Len(w) |->
            PeriodRow(w[i].client_id, w[i].old_farmer_id,
                      Coalesce(Lag(w, i), CreationDateOf(cl, w[i].client_id)),
                      w[i].transfer_date)] : w \in WindowOrders(T)}

\* CTE all_periods: UNION ALL keeps every row of the three clauses.  One
\* element per outcome of the two windows.
all_periods(cl, tr) ==
    {client_original_farmers(cl, tr) \o new \o old :
        new \in client_transfer_periods_new(tr),
        old \in client_transfer_periods_old(cl, tr)}

\* The date restriction with ap.start_date < end_date.
DateRestriction_strict_end(ap, start_date, end_date) ==
    /\ start_date # NULL => (ap.end_date = NULL \/ ap.end_date >= start_date)
    /\ end_date # NULL => (ap.start_date # NULL /\ ap.start_date < end_date)

\* The optional date restriction appended to WHERE 1=1 (a comparison with
\* NULL is not true).
DateRestriction(ap, start_date, end_date) ==
    /\ start_date # NULL => (ap.end_date = NULL \/ ap.end_date >= start_date)
    /\ end_date # NULL => (ap.start_date # NULL /\ ap.start_date <= end_date)

\* ORDER BY client_id, start_date (ascending, NULLs last).
OrderKeyLeq(a, b) ==
    \/ a.client_id < b.client_id
    \/ /\ a.client_id = b.client_id
       /\ \/ b.start_date = NULL
          \/ (a.start_date # NULL /\ a.start_date <= b.start_date)

\* Every order ORDER BY may return: rows with equal keys come in any order.
RECURSIVE OrderBy(_)
OrderBy(rows) ==
    IF Len(rows) = 0 THEN {<<>>}
    ELSE LET firsts == {i \in 1..Len(rows) :
                          \A j \in 1..Len(rows) : OrderKeyLeq(rows[i], rows[j])}
         IN  UNION {{<<rows[i]>> \o rest : rest \in OrderBy(RemoveAt(rows, i))} :
                    i \in firsts}

\* The dataframes get_client_farmer_periods(start_date, end_date) may return.
get_client_farmer_periods(cl, tr, start_date, end_date) ==
    UNION {OrderBy(SelectSeq(rows,
                      LAMBDA ap : DateRestriction(ap, start_date, end_date))) :
           rows \in all_periods(cl, tr)}

----------------------------------------------------------------------------
(* The pandas code over the fetched periods.                               *)

\* The test both loops apply to a period row: start_date <= date and
\* (end_date is None or pd.isna(end_date) or date < end_date).  A comparison
\* with NaT is False.
PeriodContains(period, date) ==
    /\ period.start_date # NULL
    /\ period.start_date <= date
    /\ (period.end_date = NULL \/ date < period.end_date)

\* get_responsible_farmer, after df_periods is loaded: the farmer_id of the
\* first row of the client that contains the date, else None.
get_responsible_farmer(client_id, date, df_periods) ==
    LET client_periods ==
            SelectSeq(df_periods, LAMBDA row : row.client_id = client_id)
        hits == {i \in 1..Len(client_periods) :
                    PeriodContains(client_periods[i], date)}
    IN  IF Len(client_periods) = 0 THEN NULL
        ELSE IF hits = {} THEN NULL
        ELSE client_periods[Min(hits)].farmer_id

\* The dates of the records of a client without data.
UnknownDates == {1, MaxDate}

\* A business record of the dataframe being filtered: client_id and the
\* value of its date_column.
Records ==
    [client_id : ClientIds, date : Dates]
      \cup [client_id : UnknownClients, date : UnknownDates]

\* A row of a dataframe that has no column date_column, and a row of one
\* that has no column client_id.
RecordsMissingColumn ==
    [client_id : ClientIds \cup UnknownClients] \cup [date : UnknownDates]

\* 'client_id' in df.columns and date_column in df.columns.
HasColumns(df) ==
    \A i \in 1..Len(df) : {"client_id", "date"} \subseteq DOMAIN df[i]

\* date_range is <<start, end>>, or <<>> when it is not given; then the range
\* is the minimum and maximum of the date column.
FilterRange(df, date_range) ==
    IF Len(date_range) > 0 THEN date_range
    ELSE LET ds == {df[i].date : i \in 1..Len(df)}
         IN  <<Min(ds), Max(ds)>>

\* is_in_period that looks at the periods of every client.
is_in_period_any_client(row, periods, farmer_id) ==
    \E i \in 1..Len(periods) :
        /\ PeriodContains(periods[i], row.date)
        /\ (farmer_id = NULL \/ periods[i].farmer_id = farmer_id)

\* is_in_period(row), over the periods left after the farmer filter.
is_in_period(row, periods, farmer_id) ==
    LET client_periods ==
            SelectSeq(periods, LAMBDA p : p.client_id = row.client_id)
    IN  IF Len(client_periods) = 0 THEN FALSE
        ELSE \E i \in 1..Len(client_periods) :
                /\ PeriodContains(client_periods[i], row.date)
                /\ (farmer_id = NULL \/ client_periods[i].farmer_id = farmer_id)

\* filter_data_by_responsibility, after the periods are fetched.
filter_data_by_responsibility(df, farmer_id, fetched) ==
    IF Len(fetched) = 0 THEN <<>>
    ELSE LET periods ==
                 IF farmer_id # NULL
                 THEN SelectSeq(fetched, LAMBDA p : p.farmer_id = farmer_id)
                 ELSE fetched
         IN  IF farmer_id # NULL /\ Len(periods) = 0 THEN <<>>
             ELSE SelectSeq(df, LAMBDA row : is_in_period(row, periods, farmer_id))

----------------------------------------------------------------------------
(* The state machine.                                                      *)

NoArgs == [db_fails |-> FALSE]

\* A destination table is a bag of rows: row -> number of copies.
EmptyTable == [r \in {} |-> 0]

\* No loader was called, no main is running, no import is running.
NoLoad ==
    [runs |-> 0, loader |-> "none", df_prev |-> <<>>, df_cur |-> <<>>,
     farmer_id |-> NULL, fault |-> "none", ret |-> FALSE,
     before |-> EmptyTable, first_ret |-> FALSE]
NoJob ==
    [name |-> "none", farmer_id |-> NULL, pc |-> 0, trace |-> <<>>,
     df_prev |-> <<>>, df_cur |-> <<>>, raised_at |-> 0,
     load_outcome |-> "none", done |-> FALSE, exit_code |-> 0,
     table0 |-> EmptyTable]
NoImport == [pc |-> "none"]
NoDb == [committed |-> {}, pending |-> {}]

JobsIdle == table = EmptyTable /\ load = NoLoad /\ job = NoJob
ImportIdle == db = NoDb /\ imp = NoImport

TransferLogs ==
    SubsetsUpTo(TransferRows, MaxTransfers)

Init ==
    /\ clients \in ClientTables
    /\ transfers \in TransferLogs
    /\ op = "none"
    /\ args = NoArgs
    /\ outcome = "none"
    /\ ret = NULL
    /\ JobsIdle
    /\ ImportIdle

\* The date restrictions a caller passes: none, or start <= end.
DateWindows == {w \in Dates \X Dates : w[1] <= w[2]}

\* A call of get_client_farmer_periods(start_date, end_date): it raises when
\* the connection or the query fails, else returns the ordered rows.
GetClientFarmerPeriods ==
    /\ op = "none"
    /\ \E w \in {<<NULL, NULL>>} \cup DateWindows, db_fails \in BOOLEAN :
        /\ op' = "get_client_farmer_periods"
        /\ args' = [db_fails |-> db_fails, start_date |-> w[1], end_date |-> w[2]]
        /\ IF db_fails
           THEN outcome' = "raised" /\ ret' = <<>>
           ELSE \E df \in get_client_farmer_periods(clients, transfers, w[1], w[2]) :
                    outcome' = "returned" /\ ret' = df
        /\ UNCHANGED <<clients, transfers, jobVars, importVars>>

\* A call of get_responsible_farmer(client_id, date) without df_periods: it
\* loads all periods; any exception is caught and None returned.
GetResponsibleFarmer ==
    /\ op = "none"
    /\ \E client_id \in ClientIds \cup UnknownClients, date \in Dates,
       db_fails \in BOOLEAN :
        /\ op' = "get_responsible_farmer"
        /\ args' = [db_fails |-> db_fails, client_id |-> client_id, date |-> date]
        /\ outcome' = "returned"
        /\ IF db_fails
           THEN ret' = NULL
           ELSE \E df_periods \in
                        get_client_farmer_periods(clients, transfers, NULL, NULL) :
                    ret' = get_responsible_farmer(client_id, date, df_periods)
        /\ UNCHANGED <<clients, transfers, jobVars, importVars>>

\* The dataframes a caller passes: with the two columns, or without one of
\* them (all rows of a dataframe have the same columns).
Dataframes ==
    SeqsUpTo(Records, MaxRecords)
      \cup {df \in SeqsUpTo(RecordsMissingColumn, MaxRecords) :
                \A i, k \in 1..Len(df) : DOMAIN df[i] = DOMAIN df[k]}

\* What goes wrong in a call: nothing, the fetch of the periods raises
\* (db_fails), or another statement of the try block raises (raises).
CallFaults ==
    {f \in [db_fails : BOOLEAN, raises : BOOLEAN] : ~(f.db_fails /\ f.raises)}

\* A call of filter_data_by_responsibility(df, date_column, farmer_id,
\* date_range): an empty df is returned as it is, and so is a df without
\* the column client_id or date_column; if fetching the periods raises, or
\* anything else in the try block does, the exception is caught and df
\* returned.
FilterDataByResponsibility ==
    /\ op = "none"
    /\ \E df \in Dataframes, farmer_id \in Farmers \cup {NULL},
       date_range \in {<<>>} \cup DateWindows, fault \in CallFaults :
        /\ op' = "filter_data_by_responsibility"
        /\ args' = [db_fails |-> fault.db_fails, raises |-> fault.raises,
                    df |-> df, farmer_id |-> farmer_id,
                    date_range |-> date_range]
        /\ outcome' = "returned"
        /\ IF Len(df) = 0 THEN ret' = df
           ELSE IF ~HasColumns(df) THEN ret' = df
           ELSE IF fault.db_fails \/ fault.raises THEN ret' = df
           ELSE LET r == FilterRange(df, date_range)
                IN  \E fetched \in
                        get_client_farmer_periods(clients, transfers, r[1], r[2]) :
                      ret' = filter_data_by_responsibility(df, farmer_id, fetched)
        /\ UNCHANGED <<clients, transfers, jobVars, importVars>>

Next ==
    \/ GetClientFarmerPeriods
    \/ GetResponsibleFarmer
    \/ FilterDataByResponsibility

Spec == Init /\ [][Next]_vars

\* The calls that only build and look up intervals.
NextPeriods ==
    \/ GetClientFarmerPeriods
    \/ GetResponsibleFarmer

SpecPeriods == Init /\ [][NextPeriods]_vars

----------------------------------------------------------------------------
(* Notions the properties are stated with.                                 *)

\* The FARMER transfer events of client c, and those dated at or before d.
EventsOf(c) == FarmerTransfersOf(transfers, c)
EventsUpTo(c, d) == {e \in EventsOf(c) : e.transfer_date <= d}

\* The FARMER events of c are totally ordered by transfer_date: no two of
\* them have the same date.  The first and the last event are defined for
\* such logs only.
TotallyOrdered(c) ==
    \A e, u \in EventsOf(c) : e.transfer_date = u.transfer_date => e = u

\* The first event of c, and the last event at or before d.
FirstEvent(c) ==
    CHOOSE e \in EventsOf(c) :
        \A u \in EventsOf(c) : e.transfer_date <= u.transfer_date
LatestEvent(c, d) ==
    CHOOSE e \in EventsUpTo(c, d) :
        \A u \in EventsUpTo(c, d) : u.transfer_date <= e.transfer_date

\* d lies in the half-open interval [start_date, end_date) of a row.
InInterval(row, d) ==
    /\ row.start_date # NULL
    /\ row.start_date <= d
    /\ (row.end_date = NULL \/ d < row.end_date)

\* The rows of client c in a returned dataframe of periods.
RowsOf(df, c) == SelectSeq(df, LAMBDA row : row.client_id = c)

\* The call that just returned.
ReturnedAllPeriods ==
    /\ op = "get_client_farmer_periods"
    /\ outcome = "returned"
    /\ args.start_date = NULL
    /\ args.end_date = NULL

LookedUp ==
    /\ op = "get_responsible_farmer"
    /\ ~args.db_fails
    /\ args.client_id \in ClientIds

\* filter_data_by_responsibility returned for a non-empty dataframe with
\* both columns, after fetching the periods, nothing having raised.
Filtered ==
    /\ op = "filter_data_by_responsibility"
    /\ ~args.db_fails
    /\ ~args.raises
    /\ Len(args.df) > 0
    /\ HasColumns(args.df)

\* Record i of the filtered dataframe is in the result.
Kept(i) == \E j \in 1..Len(ret) : ret[j] = args.df[i]

\* The date range given to the filter leaves out no record of the dataframe.
RangeCoversRecords ==
    \/ Len(args.date_range) = 0
    \/ \A i \in 1..Len(args.df) :
          /\ args.date_range[1] <= args.df[i].date
          /\ args.df[i].date <= args.date_range[2]

----------------------------------------------------------------------------
(* Properties of the interval construction and of the point lookup.        *)

\* C1: the intervals returned without a date restriction tile the client's
\* timeline: every date at or after creation_date lies in exactly one
\* interval, and no date before creation_date lies in any.
C1_Tiling ==
    ReturnedAllPeriods =>
        \A c \in ClientIds, d \in Dates :
            LET rows == RowsOf(ret, c)
                n == Cardinality({i \in 1..Len(rows) : InInterval(rows[i], d)})
            IN  n = IF d >= clients[c].creation_date THEN 1 ELSE 0

\* C2: a lookup dated at or after a FARMER transfer returns the new farmer of
\* the last transfer at or before that date (none when that is null): the
\* transfer date itself belongs to the new farmer, the day before the next
\* transfer still does, and the last interval is open.  For clients whose
\* FARMER transfers have distinct dates.
C2_LookupLatestTransfer ==
    (LookedUp /\ TotallyOrdered(args.client_id)
        /\ EventsUpTo(args.client_id, args.date) # {}) =>
        ret = LatestEvent(args.client_id, args.date).new_farmer_id

\* C4: a client with N FARMER transfers (N >= 0) has exactly N+1 interval
\* rows.
C4_NPlusOneRows ==
    ReturnedAllPeriods =>
        \A c \in ClientIds :
            Len(RowsOf(ret, c)) = Cardinality(EventsOf(c)) + 1

\* C5: a client with no FARMER transfer has exactly one interval: from its
\* creation_date, open-ended, attributed to its original farmer.
C5_NoTransferSingleInterval ==
    ReturnedAllPeriods =>
        \A c \in ClientIds :
            EventsOf(c) = {} =>
                RowsOf(ret, c) =
                    <<PeriodRow(c, clients[c].farmer_id,
                                clients[c].creation_date, NULL)>>

\* A client whose only transfers are not of type FARMER got its one interval.
C5_Witness ==
    /\ ReturnedAllPeriods
    /\ \E c \in ClientIds :
          /\ EventsOf(c) = {}
          /\ \E t \in transfers : t.client_id = c
          /\ Len(RowsOf(ret, c)) = 1

\* C6: a lookup dated at creation_date returns the original farmer (the old
\* farmer of the first FARMER transfer when the client was transferred, the
\* farmer of the client record when that is null or there is no transfer);
\* a lookup dated before creation_date returns none.  For clients whose
\* FARMER transfers have distinct dates.
C6_CreationBoundary ==
    (LookedUp /\ TotallyOrdered(args.client_id)) =>
        LET c == args.client_id
            original ==
                IF EventsOf(c) = {} THEN clients[c].farmer_id
                ELSE Coalesce(FirstEvent(c).old_farmer_id, clients[c].farmer_id)
        IN  /\ args.date = clients[c].creation_date => ret = original
            /\ args.date < clients[c].creation_date => ret = NULL

\* C9: the rows that begin before the first FARMER transfer are the one
\* interval [creation_date, first.transfer_date), attributed to
\* first.old_farmer_id, or to the client's original farmer when that is null.
\* For clients whose FARMER transfers have distinct dates.
C9_FirstInterval ==
    ReturnedAllPeriods =>
        \A c \in ClientIds :
            (EventsOf(c) # {} /\ TotallyOrdered(c)) =>
                LET first == FirstEvent(c)
                    rows == RowsOf(ret, c)
                IN  {rows[i] : i \in {i \in 1..Len(rows) :
                                        rows[i].start_date < first.transfer_date}}
                      = {PeriodRow(c,
                                   Coalesce(first.old_farmer_id, clients[c].farmer_id),
                                   clients[c].creation_date,
                                   first.transfer_date)}

----------------------------------------------------------------------------
(* Properties of the responsibility filter.                                *)

\* C3: with a farmer F given (and no record outside the date range), a
\* record is kept if and only if the lookup for its client and date returns
\* F, and then no other farmer's filter keeps it.
C3_FilterIffResponsible ==
    (Filtered /\ args.farmer_id # NULL /\ RangeCoversRecords) =>
        \A i \in 1..Len(args.df) :
            LET row == args.df[i]
                r == FilterRange(args.df, args.date_range)
            IN  /\ Kept(i) <=>
                     \A df_periods \in
                           get_client_farmer_periods(clients, transfers, NULL, NULL) :
                        get_responsible_farmer(row.client_id, row.date, df_periods)
                            = args.farmer_id
                /\ Kept(i) =>
                     \A f \in Farmers \ {args.farmer_id} :
                        \A fetched \in
                              get_client_farmer_periods(clients, transfers, r[1], r[2]) :
                           filter_data_by_responsibility(<<row>>, f, fetched) = <<>>

\* C7: a record dated at or after a FARMER transfer of its client is kept
\* for the new farmer of the last transfer at or before its date, and for no
\* other farmer.  For clients whose FARMER transfers have distinct dates.
C7_SpanOfEventToNewFarmer ==
    (Filtered /\ args.farmer_id # NULL /\ RangeCoversRecords) =>
        \A i \in 1..Len(args.df) :
            LET row == args.df[i]
            IN  (row.client_id \in ClientIds
                    /\ TotallyOrdered(row.client_id)
                    /\ EventsUpTo(row.client_id, row.date) # {}) =>
                  (Kept(i) <=>
                     LatestEvent(row.client_id, row.date).new_farmer_id
                         = args.farmer_id)

\* C8: from a FARMER transfer with a null new farmer until the next FARMER
\* transfer the client belongs to no farmer: a lookup returns none and no
\* farmer's filter keeps a record.  For clients whose FARMER transfers have
\* distinct dates.
C8_RemovedFromCoverage ==
    /\ (LookedUp /\ TotallyOrdered(args.client_id)
           /\ EventsUpTo(args.client_id, args.date) # {}) =>
          (LatestEvent(args.client_id, args.date).new_farmer_id = NULL
              => ret = NULL)
    /\ (Filtered /\ args.farmer_id # NULL) =>
          \A i \in 1..Len(args.df) :
              LET row == args.df[i]
              IN  (/\ row.client_id \in ClientIds
                   /\ TotallyOrdered(row.client_id)
                   /\ EventsUpTo(row.client_id, row.date) # {}
                   /\ LatestEvent(row.client_id, row.date).new_farmer_id = NULL)
                    => ~Kept(i)

\* C10: without a farmer the filter returns its input unchanged: all the
\* records, in their order, whatever the periods are.
C10_NoFarmerPassthrough ==
    (op = "filter_data_by_responsibility" /\ args.farmer_id = NULL) =>
        ret = args.df

----------------------------------------------------------------------------
(* Failure of the fetch, clients without data, and the date restriction.   *)

\* C11: when the fetch of the periods fails, the lookup returns none and the
\* filter returns an empty result.
C11_FetchFailureExcludes ==
    /\ (op = "get_responsible_farmer" /\ args.db_fails) => ret = NULL
    /\ (op = "filter_data_by_responsibility" /\ args.db_fails) => ret = <<>>

\* The records of a dataframe whose client is c.
RecordsOf(df, c) == SelectSeq(df, LAMBDA row : row.client_id = c)

\* C12: a client with no client record and no transfer has no interval; a
\* lookup for it returns none and a filter with a farmer given keeps none of
\* its records; no call for it raises once the periods are fetched.
C12_UnknownClientExcluded ==
    \A c \in UnknownClients :
        /\ (op = "get_client_farmer_periods" /\ outcome = "returned") =>
              RowsOf(ret, c) = <<>>
        /\ (op = "get_responsible_farmer" /\ ~args.db_fails
                /\ args.client_id = c) =>
              (outcome = "returned" /\ ret = NULL)
        /\ (Filtered /\ args.farmer_id # NULL) =>
              (outcome = "returned" /\ RecordsOf(ret, c) = <<>>)

\* A filter with a farmer given dropped the record of a client without data
\* and kept the record of a known client.
C12_Witness ==
    /\ Filtered
    /\ args.farmer_id # NULL
    /\ \E c \in UnknownClients : RecordsOf(args.df, c) # <<>>
    /\ Len(ret) = 1
    /\ ret[1].client_id \in ClientIds

\* C13: when every record is dated within the range of the fetch, the filter
\* over the restricted periods returns what it returns over the unrestricted
\* periods: over the rows of some evaluation of the three clauses (of the
\* only one, when no two FARMER transfers of a client have the same date),
\* in every order the query may return them.
C13_RestrictionIsOptimization ==
    (Filtered /\ RangeCoversRecords) =>
        \E rows \in all_periods(clients, transfers) :
            \A unrestricted \in OrderBy(rows) :
                ret = filter_data_by_responsibility(args.df, args.farmer_id,
                                                    unrestricted)

\* The restriction left out a period of the client of a record that was kept
\* by a later period starting on the last date of the range.
C13_Witness ==
    /\ Filtered
    /\ RangeCoversRecords
    /\ Len(args.date_range) = 2
    /\ LET r == args.date_range
       IN  \A ap \in all_periods(clients, transfers) :
             /\ \E k \in 1..Len(ap) : ~DateRestriction(ap[k], r[1], r[2])
             /\ \E i \in 1..Len(args.df) :
                   /\ Kept(i)
                   /\ args.df[i].date = r[2]
                   /\ \E k \in 1..Len(ap) :
                         /\ ap[k].client_id = args.df[i].client_id
                         /\ ap[k].start_date = r[2]

\* The transfer log without the events that are not FARMER transfers.
FarmerTransfersOnly(tr) == {t \in tr : IsFarmerTransfer(t)}

\* C14: the returned periods are periods the query returns over the log
\* without its non-FARMER events (so two logs with the same FARMER events
\* give the same periods).
C14_OtherTypesIgnored ==
    (op = "get_client_farmer_periods" /\ outcome = "returned") =>
        ret \in get_client_farmer_periods(clients,
                                          FarmerTransfersOnly(transfers),
                                          args.start_date, args.end_date)

\* Periods were returned over a log with a FARMER and a non-FARMER transfer
\* to a new farmer.
C14_Witness ==
    /\ op = "get_client_farmer_periods"
    /\ outcome = "returned"
    /\ args.start_date = NULL
    /\ \E t \in transfers : IsFarmerTransfer(t)
    /\ \E t \in transfers : ~IsFarmerTransfer(t) /\ t.new_farmer_id # NULL
    /\ Len(ret) > 0

\* The FARMER events of client c in ascending order of transfer_date.
RECURSIVE SortByDate(_)
SortByDate(E) ==
    IF E = {} THEN <<>>
    ELSE LET e == CHOOSE e \in E : \A u \in E : e.transfer_date <= u.transfer_date
         IN  <<e>> \o SortByDate(E \ {e})

\* The pairwise walk over the sorted FARMER events of client c: the interval
\* before the first event belongs to its old farmer (or the original one),
\* the interval from each event to the next to its new farmer, the last one
\* is open; a null farmer gives an interval with a null farmer_id.
buildIntervals(c) ==
    LET ev == SortByDate(EventsOf(c))
        N == Len(ev)
    IN  IF N = 0
        THEN <<PeriodRow(c, clients[c].farmer_id, clients[c].creation_date, NULL)>>
        ELSE <<PeriodRow(c, Coalesce(ev[1].old_farmer_id, clients[c].farmer_id),
                         clients[c].creation_date, ev[1].transfer_date)>>
             \o [i \in 1..N |->
                    PeriodRow(c, ev[i].new_farmer_id, ev[i].transfer_date,
                              IF i < N THEN ev[i + 1].transfer_date ELSE NULL)]

\* C15: the rows the query returns for a client are the interval sequence of
\* the pairwise walk over its sorted FARMER events.  For clients whose FARMER
\* transfers have distinct dates.
C15_QueryEqualsWalk ==
    ReturnedAllPeriods =>
        \A c \in ClientIds :
            TotallyOrdered(c) => RowsOf(ret, c) = buildIntervals(c)

\* C16: the returned periods are the only periods the query can return for
\* the clients and the transfer log: the same rows in the same order.
C16_SameSequenceEveryTime ==
    (op = "get_client_farmer_periods" /\ outcome = "returned") =>
        get_client_farmer_periods(clients, transfers,
                                  args.start_date, args.end_date) = {ret}

----------------------------------------------------------------------------
(* load_receita_farmer (src/kpis/farmer/kpi_receita_farmer/load.py): one    *)
(* transaction that deletes the destination rows in scope and inserts the   *)
(* rows of the two dataframes.  A row of analysis.receita_farmer is         *)
(* (mes, farmer_id, fonte, receita_bruta): receita_bruta stands for the     *)
(* four measure columns, which are treated alike; mes_formatado and         *)
(* employee_name are copied; id (SERIAL), created_at and updated_at (now()) *)
(* are bookkeeping columns and left out.                                    *)

\* A missing measure (pandas NaN).
NaN == -1

\* Bounds of the loader model.
MaxRows == 2
MaxStored == 2

Meses == {1}
Fontes == {"historical", "current"}

\* A row of an input dataframe, and a row of the destination table.
DfRows == [mes : Meses, farmer_id : Farmers, receita_bruta : {NaN, 5}]
StoredRows ==
    [mes : Meses, farmer_id : Farmers, fonte : Fontes, receita_bruta : {0, 5}]

LoadFrames == SeqsUpTo(DfRows, MaxRows)

Count(t, r) == IF r \in DOMAIN t THEN t[r] ELSE 0

\* UNIQUE(mes, fonte, farmer_id) of analysis.receita_farmer.
UniqueKey(r) == <<r.mes, r.fonte, r.farmer_id>>

\* The destination tables a load may find: the constraint holds in them.
InitialTables ==
    {[r \in S |-> 1] :
        S \in {S \in SubsetsUpTo(StoredRows, MaxStored) :
                 \A r, q \in S : UniqueKey(r) = UniqueKey(q) => r = q}}

\* DELETE that removes nothing.
DeleteFrom_nothing(t, farmer_id) == t

\* DELETE FROM analysis.receita_farmer [WHERE farmer_id = %s]: the WHERE is
\* there if farmer_id is truthy.
DeleteFrom(t, farmer_id) ==
    [r \in {r \in DOMAIN t : farmer_id # NULL /\ r.farmer_id # farmer_id}
        |-> t[r]]

\* The tuples built from a dataframe: rows of another farmer are skipped
\* when farmer_id is truthy, a missing measure becomes 0.
data_to_insert(df, farmer_id, fonte) ==
    LET kept == SelectSeq(df, LAMBDA row :
                    ~(farmer_id # NULL /\ row.farmer_id # farmer_id))
    IN  [i \in 1..Len(kept) |->
            [mes |-> kept[i].mes,
             farmer_id |-> kept[i].farmer_id,
             fonte |-> fonte,
             receita_bruta |-> IF kept[i].receita_bruta # NaN
                               THEN kept[i].receita_bruta ELSE 0]]

\* cursor.executemany(INSERT ...): the rows are inserted one by one; a row
\* whose key is already in the table violates the constraint and raises.
RECURSIVE executemany(_, _)
executemany(t, rows) ==
    IF Len(rows) = 0 THEN [raised |-> FALSE, table |-> t]
    ELSE LET r == Head(rows)
         IN  IF \E q \in DOMAIN t : UniqueKey(q) = UniqueKey(r)
             THEN [raised |-> TRUE, table |-> t]
             ELSE executemany([x \in DOMAIN t \cup {r} |-> Count(t, x) + (IF x = r THEN 1 ELSE 0)],
                              Tail(rows))

\* Where a call of the loader may fail: get_connection, the table check
\* returning False, a statement, the commit on leaving the with block.
Faults == {"none", "connect", "create_table", "execute", "commit"}

\* DatabaseConnection.__exit__ that commits whatever the block did.
DatabaseConnection_exit_always_commit(committed, working, exc) == working

\* DatabaseConnection.__exit__: rollback if an exception left the with
\* block, commit otherwise; the table the database holds afterwards.
DatabaseConnection_exit(committed, working, exc) ==
    IF exc THEN committed ELSE working

\* load_receita_farmer without the test for empty dataframes.
load_receita_farmer_no_empty_check(t, df_meses_anteriores, df_mes_atual, farmer_id, fault) ==
    IF fault \in {"connect", "create_table"}
    THEN [ret |-> FALSE, table |-> t]
    ELSE LET deleted == DeleteFrom(t, farmer_id)
             hist == executemany(deleted,
                         data_to_insert(df_meses_anteriores, farmer_id, "historical"))
             cur == executemany(hist.table,
                         data_to_insert(df_mes_atual, farmer_id, "current"))
         IN  IF fault = "execute" \/ hist.raised \/ cur.raised \/ fault = "commit"
             THEN [ret |-> FALSE, table |-> t]
             ELSE [ret |-> TRUE, table |-> cur.table]

\* load_receita_farmer(df_meses_anteriores, df_mes_atual, farmer_id) on the
\* table t: what it returns and the table it leaves.  Every exception is
\* caught and the transaction rolled back.  The fault "execute" is an INSERT
\* refused by the server after the DELETE ran; "commit" is a commit that the
\* server did not perform.
load_receita_farmer(t, df_meses_anteriores, df_mes_atual, farmer_id, fault) ==
    IF Len(df_meses_anteriores) = 0 /\ Len(df_mes_atual) = 0
    THEN [ret |-> TRUE, table |-> t]
    ELSE IF fault \in {"connect", "create_table"}
    THEN [ret |-> FALSE, table |-> t]
    ELSE LET deleted == DeleteFrom(t, farmer_id)
             hist == executemany(deleted,
                         data_to_insert(df_meses_anteriores, farmer_id, "historical"))
             cur == executemany(hist.table,
                         data_to_insert(df_mes_atual, farmer_id, "current"))
         IN  IF fault = "execute"
             THEN [ret |-> FALSE,
                   table |-> DatabaseConnection_exit(t, deleted, TRUE)]
             ELSE IF hist.raised
             THEN [ret |-> FALSE,
                   table |-> DatabaseConnection_exit(t, hist.table, TRUE)]
             ELSE IF cur.raised
             THEN [ret |-> FALSE,
                   table |-> DatabaseConnection_exit(t, cur.table, TRUE)]
             ELSE IF fault = "commit"
             THEN [ret |-> FALSE, table |-> t]
             ELSE [ret |-> TRUE,
                   table |-> DatabaseConnection_exit(t, cur.table, FALSE)]

InitLoad ==
    /\ clients = <<>>
    /\ transfers = {}
    /\ op = "none"
    /\ args = NoArgs
    /\ outcome = "none"
    /\ ret = NULL
    /\ table \in InitialTables
    /\ load = NoLoad
    /\ job = NoJob
    /\ ImportIdle

\* A call of load_receita_farmer.
LoadReceitaFarmer ==
    /\ load.runs = 0
    /\ \E df_prev \in LoadFrames, df_cur \in LoadFrames,
          farmer_id \in Farmers \cup {NULL}, fault \in Faults :
        LET res == load_receita_farmer(table, df_prev, df_cur, farmer_id, fault)
        IN  /\ table' = res.table
            /\ load' = [runs |-> 1, loader |-> "load_receita_farmer",
                        df_prev |-> df_prev, df_cur |-> df_cur,
                        farmer_id |-> farmer_id, fault |-> fault,
                        ret |-> res.ret, before |-> table, first_ret |-> res.ret]
    /\ UNCHANGED <<resolverVars, job, importVars>>

\* The same call once more, on the table the first call left.
LoadReceitaFarmerAgain ==
    /\ load.runs = 1
    /\ \E fault \in Faults :
        LET res == load_receita_farmer(table, load.df_prev, load.df_cur,
                                       load.farmer_id, fault)
        IN  /\ table' = res.table
            /\ load' = [load EXCEPT !.runs = 2, !.fault = fault,
                                    !.ret = res.ret, !.before = table]
    /\ UNCHANGED <<resolverVars, job, importVars>>

NextLoad ==
    \/ LoadReceitaFarmer
    \/ LoadReceitaFarmerAgain

SpecLoad == InitLoad /\ [][NextLoad]_vars

\* The destination rows in the scope of the last load, and the rows of its
\* dataframes in scope, tagged.
RowInScope(r) == load.farmer_id = NULL \/ r.farmer_id = load.farmer_id
Tagged(row, fonte) ==
    [mes |-> row.mes, farmer_id |-> row.farmer_id, fonte |-> fonte,
     receita_bruta |-> IF row.receita_bruta = NaN THEN 0 ELSE row.receita_bruta]
CopiesIn(df, fonte, r) ==
    Cardinality({i \in 1..Len(df) : RowInScope(df[i]) /\ Tagged(df[i], fonte) = r})

LoadedNonEmpty ==
    /\ load.runs > 0
    /\ load.ret
    /\ (Len(load.df_prev) > 0 \/ Len(load.df_cur) > 0)

\* C17: after a load of non-empty input returned True, each row in scope is
\* in the table as often as it is among the in-scope rows of df_prev tagged
\* 'historical' and of df_cur tagged 'current', and never twice; and when the
\* same load is run again, it leaves the table the first run left.
C17_DeleteAndReinsertIsUpsert ==
    LoadedNonEmpty =>
        /\ \A r \in StoredRows :
              RowInScope(r) =>
                 /\ Count(table, r) = CopiesIn(load.df_prev, "historical", r)
                                        + CopiesIn(load.df_cur, "current", r)
                 /\ Count(table, r) <= 1
        /\ (load.runs = 2 /\ load.first_ret) => table = load.before

\* A load for one farmer ran twice; it replaced a stale row of the farmer
\* and left a row of another farmer.
C17_Witness ==
    /\ LoadedNonEmpty
    /\ load.runs = 2
    /\ load.first_ret
    /\ load.farmer_id # NULL
    /\ \E r \in DOMAIN table : ~RowInScope(r)
    /\ \E r \in DOMAIN table : RowInScope(r)
    /\ \E i \in 1..Len(load.df_prev) : ~RowInScope(load.df_prev[i])

----------------------------------------------------------------------------
(* The main of a KPI job (src/kpis/farmer/kpi_receita_farmer/main.py,      *)
(* src/kpis/rh/kpi_folha_pagamento/main.py): the extract and transform     *)
(* calls of process_*, then the loader, all inside one try whose except    *)
(* returns 1.  Every extract and transform function logs and re-raises.    *)

Jobs == {"kpi_receita_farmer", "kpi_folha_pagamento"}

\* The calls of a main, in the order of its code.
Steps(name) ==
    IF name = "kpi_receita_farmer"
    THEN << [kind |-> "extract", fn |-> "extract_meses_anteriores"],
            [kind |-> "extract", fn |-> "extract_ultima_data_mes_atual"],
            [kind |-> "extract", fn |-> "extract_coe_mes_atual"],
            [kind |-> "extract", fn |-> "extract_op_estruturadas_mes_atual"],
            [kind |-> "extract", fn |-> "extract_positivador_mes_atual"],
            [kind |-> "transform", fn |-> "transform_meses_anteriores"],
            [kind |-> "transform", fn |-> "transform_mes_atual"],
            [kind |-> "transform", fn |-> "prepare_final_dataset(anteriores)"],
            [kind |-> "transform", fn |-> "prepare_final_dataset(atual)"],
            [kind |-> "transform", fn |-> "pd.concat"],
            [kind |-> "load", fn |-> "load_receita_farmer"] >>
    ELSE << [kind |-> "extract", fn |-> "extract_folha_meses_anteriores"],
            [kind |-> "extract", fn |-> "extract_folha_mes_atual"],
            [kind |-> "transform", fn |-> "transform_folha"],
            [kind |-> "transform", fn |-> "prepare_final_dataset"],
            [kind |-> "load", fn |-> "load_folha_pagamento"] >>

\* analysis.folha_pagamento: rows (mes, farmer_id, total_folha),
\* UNIQUE(mes, farmer_id).
FolhaDfRows == [mes : Meses, farmer_id : Farmers, total_folha : {NaN, 5}]
FolhaStoredRows == [mes : Meses, farmer_id : Farmers, total_folha : {0, 5}]
FolhaKey(r) == <<r.mes, r.farmer_id>>

InitialFolhaTables ==
    {[r \in S |-> 1] :
        S \in {S \in SubsetsUpTo(FolhaStoredRows, MaxStored) :
                 \A r, q \in S : FolhaKey(r) = FolhaKey(q) => r = q}}

\* The tuples load_folha_pagamento builds from df_folha.
folha_data_to_insert(df, farmer_id) ==
    LET kept == SelectSeq(df, LAMBDA row :
                    ~(farmer_id # NULL /\ row.farmer_id # farmer_id))
    IN  [i \in 1..Len(kept) |->
            [mes |-> kept[i].mes,
             farmer_id |-> kept[i].farmer_id,
             total_folha |-> IF kept[i].total_folha # NaN
                             THEN kept[i].total_folha ELSE 0]]

\* cursor.executemany(INSERT INTO analysis.folha_pagamento ...).
RECURSIVE executemany_folha(_, _)
executemany_folha(t, rows) ==
    IF Len(rows) = 0 THEN [raised |-> FALSE, table |-> t]
    ELSE LET r == Head(rows)
         IN  IF \E q \in DOMAIN t : FolhaKey(q) = FolhaKey(r)
             THEN [raised |-> TRUE, table |-> t]
             ELSE executemany_folha(
                      [x \in DOMAIN t \cup {r} |-> Count(t, x) + (IF x = r THEN 1 ELSE 0)],
                      Tail(rows))

\* load_folha_pagamento(df_folha, farmer_id): "true", "false", or "raised"
\* when get_connection fails (the except clause then reads conn, which is
\* unbound).
load_folha_pagamento(t, df_folha, farmer_id, fault) ==
    IF fault = "connect" THEN [outcome |-> "raised", table |-> t]
    ELSE IF fault = "create_table" THEN [outcome |-> "false", table |-> t]
    ELSE IF Len(df_folha) = 0 THEN [outcome |-> "true", table |-> t]
    ELSE IF fault = "execute" THEN [outcome |-> "false", table |-> t]
    ELSE LET ins == executemany_folha(DeleteFrom(t, farmer_id),
                                      folha_data_to_insert(df_folha, farmer_id))
         IN  IF ins.raised \/ fault = "commit"
             THEN [outcome |-> "false", table |-> t]
             ELSE [outcome |-> "true", table |-> ins.table]

\* The frames an extract returns: its query selects the rows of farmer_id
\* when one is given.
FramesFor(rows, farmer_id) ==
    {df \in SeqsUpTo(rows, MaxRows) :
        \A i \in 1..Len(df) : farmer_id = NULL \/ df[i].farmer_id = farmer_id}

\* prepare_final_dataset: fillna(0) on the measure columns.
prepare_final_dataset(df) ==
    [i \in 1..Len(df) |->
        IF "receita_bruta" \in DOMAIN df[i]
        THEN [df[i] EXCEPT !.receita_bruta = IF @ = NaN THEN 0 ELSE @]
        ELSE [df[i] EXCEPT !.total_folha = IF @ = NaN THEN 0 ELSE @]]

\* transform_folha: pd.concat of the two frames, then
\* drop_duplicates(subset=['mes', 'farmer_id'], keep='last'): of the rows
\* with one (mes, farmer_id) the last one stays, at its place.  The values of
\* mes and total_folha are kept (to_numeric and round(2) change no value of
\* the model).
transform_folha(df_folha_meses_anteriores, df_folha_mes_atual) ==
    LET df_resultado == df_folha_meses_anteriores \o df_folha_mes_atual
        last == {i \in 1..Len(df_resultado) :
                    \A k \in (i + 1)..Len(df_resultado) :
                        FolhaKey(df_resultado[k]) # FolhaKey(df_resultado[i])}
    IN  [n \in 1..Cardinality(last) |->
            df_resultado[CHOOSE i \in last :
                            Cardinality({k \in last : k <= i}) = n]]

\* What a step that completes does to the frames of the job.
StepResults(j) ==
    LET fn == Steps(j.name)[j.pc].fn
    IN  IF fn = "extract_meses_anteriores"
        THEN {[j EXCEPT !.df_prev = df] : df \in FramesFor(DfRows, j.farmer_id)}
        ELSE IF fn = "transform_mes_atual"
        THEN {[j EXCEPT !.df_cur = df] : df \in FramesFor(DfRows, j.farmer_id)}
        ELSE IF fn = "prepare_final_dataset(anteriores)"
        THEN {[j EXCEPT !.df_prev = prepare_final_dataset(@)]}
        ELSE IF fn = "prepare_final_dataset(atual)"
        THEN {[j EXCEPT !.df_cur = prepare_final_dataset(@)]}
        ELSE IF fn = "extract_folha_meses_anteriores"
        THEN {[j EXCEPT !.df_prev = df] : df \in FramesFor(FolhaDfRows, j.farmer_id)}
        ELSE IF fn = "extract_folha_mes_atual"
        THEN {[j EXCEPT !.df_cur = df] : df \in FramesFor(FolhaDfRows, j.farmer_id)}
        ELSE IF fn = "transform_folha"
        THEN {[j EXCEPT !.df_prev = transform_folha(j.df_prev, j.df_cur),
                        !.df_cur = <<>>]}
        ELSE IF fn = "prepare_final_dataset"
        THEN {[j EXCEPT !.df_prev = prepare_final_dataset(@)]}
        ELSE {j}

\* An extract or transform call raises: main's except returns 1.
StepRaised(j) ==
    [j EXCEPT !.trace = Append(@, Steps(j.name)[j.pc].fn),
              !.raised_at = j.pc, !.done = TRUE, !.exit_code = 1]

InitJob ==
    /\ clients = <<>>
    /\ transfers = {}
    /\ op = "none"
    /\ args = NoArgs
    /\ outcome = "none"
    /\ ret = NULL
    /\ load = NoLoad
    /\ \E name \in Jobs :
          /\ table \in (IF name = "kpi_receita_farmer"
                        THEN InitialTables ELSE InitialFolhaTables)
          /\ job = [NoJob EXCEPT !.name = name, !.table0 = table]
    /\ ImportIdle

Running(kind) ==
    /\ job.name \in Jobs
    /\ job.pc \in 1..Len(Steps(job.name))
    /\ ~job.done
    /\ Steps(job.name)[job.pc].kind = kind

\* main() is started with --farmer-id or without.
Main ==
    /\ job.name \in Jobs
    /\ job.pc = 0
    /\ \E farmer_id \in Farmers \cup {NULL} :
          job' = [job EXCEPT !.farmer_id = farmer_id, !.pc = 1]
    /\ UNCHANGED <<resolverVars, table, load, importVars>>

\* An extract call returns or raises.
Extract ==
    /\ Running("extract")
    /\ \/ \E j \in StepResults(job) :
             job' = [j EXCEPT !.trace = Append(@, Steps(job.name)[job.pc].fn),
                              !.pc = job.pc + 1]
       \/ job' = StepRaised(job)
    /\ UNCHANGED <<resolverVars, table, load, importVars>>

\* A transform call returns or raises.
Transform ==
    /\ Running("transform")
    /\ \/ \E j \in StepResults(job) :
             job' = [j EXCEPT !.trace = Append(@, Steps(job.name)[job.pc].fn),
                              !.pc = job.pc + 1]
       \/ job' = StepRaised(job)
    /\ UNCHANGED <<resolverVars, table, load, importVars>>

\* The loader is called; main returns 0 if it returned True, else 1 (also
\* when it raised).
Load ==
    /\ Running("load")
    /\ \E fault \in Faults :
        LET res == IF job.name = "kpi_receita_farmer"
                   THEN LET r == load_receita_farmer(table, job.df_prev, job.df_cur,
                                                     job.farmer_id, fault)
                        IN  [outcome |-> IF r.ret THEN "true" ELSE "false",
                             table |-> r.table]
                   ELSE load_folha_pagamento(table, job.df_prev, job.farmer_id, fault)
        IN  /\ table' = res.table
            /\ job' = [job EXCEPT !.trace = Append(@, Steps(job.name)[job.pc].fn),
                                  !.load_outcome = res.outcome,
                                  !.done = TRUE,
                                  !.exit_code = IF res.outcome = "true" THEN 0 ELSE 1]
    /\ UNCHANGED <<resolverVars, load, importVars>>

NextJob ==
    \/ Main
    \/ Extract
    \/ Transform
    \/ Load

SpecJob == InitJob /\ [][NextJob]_vars

\* The names of the calls of the running main, and whether its loader was
\* called.
CallNames == [i \in 1..Len(Steps(job.name)) |-> Steps(job.name)[i].fn]
LoadInvoked == job.load_outcome # "none"

\* In a main that makes one pass, the calls made so far are an initial
\* part of extract, transform, load in the order of the code; the loader is
\* called only when no extract or transform raised; when one raised the
\* loader is not called, the table is as it was and main returned 1; and
\* main returns 0 exactly when the loader returned True.
SinglePassInOrder ==
    job.name \in Jobs =>
        /\ job.trace = SubSeq(CallNames, 1, Len(job.trace))
        /\ \A i, k \in 1..Len(job.trace) :
              (i < k) =>
                 ~(Steps(job.name)[i].kind = "load"
                     \/ (Steps(job.name)[i].kind = "transform"
                           /\ Steps(job.name)[k].kind = "extract"))
        /\ LoadInvoked =>
              (job.raised_at = 0 /\ Len(job.trace) = Len(CallNames))
        /\ job.raised_at # 0 =>
              (~LoadInvoked /\ table = job.table0 /\ job.done /\ job.exit_code = 1)
        /\ job.done => (job.exit_code = 0 <=> job.load_outcome = "true")
        /\ job.done => job.exit_code \in {0, 1}

----------------------------------------------------------------------------
(* process_and_import_data and ensure_connection                           *)
(* (src/base_serasa/insert_base_serasa.py): for each file, the rows are    *)
(* inserted in batches; each batch is a SAVEPOINT, an INSERT and a commit. *)
(* A batch is named by <<file, offset of its first row>>.  db.committed    *)
(* are the batches committed to baseserasa.serasa, db.pending those of the *)
(* open transaction.  conn is "open", "closed" (an object whose connection *)
(* is gone) or "none".                                                     *)

\* Constants of the program.
max_attempts == 3
max_retry == 3
connection_check_every == 5

\* Bounds of the import model: batch_size is 10000 in the source.
batch_size == 2
NFiles == 2
MaxFileRows == 9
MaxTotalRows == 12

FileSizes == {0, 3, MaxFileRows}

\* The numbers of rows of the valid files of a directory.
Directories ==
    {sz \in [1..NFiles -> FileSizes] :
        LET RECURSIVE Sum(_)
            Sum(k) == IF k = 0 THEN 0 ELSE sz[k] + Sum(k - 1)
        IN  Sum(NFiles) <= MaxTotalRows}

NoEvent == [kind |-> "none", f |-> 0, i |-> 0, committed |-> {},
            file_errors |-> 0, errors |-> 0]

\* The locals of process_and_import_data when its loop over the files
\* starts; conn is the connection main opened.
ImportStart(sizes) ==
    [pc |-> "file", sizes |-> sizes, f |-> 1, conn |-> "open",
     ec |-> [attempt |-> 0, ret_to |-> "none"],
     i |-> 0, connection_check_counter |-> 0, retry_count |-> 0,
     tries |-> 0, attempted |-> {}, dropped |-> 0,
     file_errors |-> 0, file_records |-> 0,
     total_records |-> 0, total_errors |-> 0, errors |-> <<>>,
     last |-> NoEvent]

\* len(batch) for batch = tuples_list[i:i+batch_size].
BatchLen(m) ==
    LET rest == m.sizes[m.f] - m.i
    IN  IF rest < batch_size THEN rest ELSE batch_size

Batch(m) == <<m.f, m.i>>

\* What happened to the batch, for the properties.
Event(m, kind) ==
    [kind |-> kind, f |-> m.f, i |-> m.i, committed |-> db.committed,
     file_errors |-> m.file_errors, errors |-> Len(m.errors)]

\* i += batch_size: the loop goes on with the next batch.
NextBatch(m) == [m EXCEPT !.i = m.i + batch_size, !.pc = "batch_head"]

\* raise Exception(...) inside the try of a file: its except clause runs.
RaiseInFile(m) == [m EXCEPT !.pc = "file_except", !.last = NoEvent]

\* A call of ensure_connection(conn, logger) whose result is used at ret_to.
CallEnsure(m, conn, ret_to) ==
    [m EXCEPT !.pc = "ensure", !.conn = conn,
              !.ec = [attempt |-> 0, ret_to |-> ret_to]]

\* The generic except that does not mark the batch as done.
OtherErrorHandled_retried(m) ==
    [m EXCEPT !.errors = Append(@, <<"batch", m.f, m.i>>),
              !.file_errors = @ + BatchLen(m),
              !.pc = "insert"]

\* The end of the generic except: the error is recorded, the rows of the
\* batch are counted as errors, success = True skips the batch.
OtherErrorHandled(m) ==
    NextBatch([m EXCEPT !.errors = Append(@, <<"batch", m.f, m.i>>),
                        !.file_errors = @ + BatchLen(m)])

\* The OperationalError handler without retry_count += 1.
OperationalErrorHandled_uncounted(m) ==
    CallEnsure(m, "none", "op_error")

\* The OperationalError handler: retry_count += 1, rollback, and
\* ensure_connection(None, logger).
OperationalErrorHandled(m) ==
    CallEnsure([m EXCEPT !.retry_count = @ + 1], "none", "op_error")

\* Where process_and_import_data goes on when ensure_connection returned
\* conn (not None).
AfterEnsure(m) ==
    LET to == m.ec.ret_to
    IN  IF to = "file_start" THEN [m EXCEPT !.pc = "read"]
        ELSE IF to = "periodic"
        THEN [m EXCEPT !.pc = "insert", !.retry_count = 0, !.tries = 0]
        ELSE IF to = "op_error"
        THEN IF m.retry_count < max_retry
             THEN [m EXCEPT !.pc = "insert"]
             ELSE NextBatch([m EXCEPT !.dropped = @ + 1])
        ELSE IF to = "other_error" THEN OtherErrorHandled(m)
        ELSE [m EXCEPT !.pc = "file", !.f = @ + 1]

\* Where it goes on when ensure_connection returned None: the except of
\* the file breaks the loop, every other caller raises.
AfterEnsureNone(m) ==
    IF m.ec.ret_to = "file_except"
    THEN [m EXCEPT !.pc = "returned", !.conn = "none"]
    ELSE RaiseInFile([m EXCEPT !.conn = "none"])

InitImport ==
    /\ clients = <<>>
    /\ transfers = {}
    /\ op = "none"
    /\ args = NoArgs
    /\ outcome = "none"
    /\ ret = NULL
    /\ JobsIdle
    /\ ImportIdle

\* process_and_import_data is called on a directory.
ProcessAndImportData ==
    /\ imp.pc = "none"
    /\ \E sizes \in Directories : imp' = ImportStart(sizes)
    /\ UNCHANGED <<resolverVars, jobVars, db>>

\* The head of the loop over the files: the next file, or the summary.
FileStart ==
    /\ imp.pc = "file"
    /\ IF imp.f > NFiles
       THEN imp' = [imp EXCEPT !.pc = "returned"]
       ELSE imp' = CallEnsure([imp EXCEPT !.file_errors = 0, !.file_records = 0,
                                          !.attempted = {}, !.i = 0],
                              imp.conn, "file_start")
    /\ UNCHANGED <<resolverVars, jobVars, db>>

\* One round of the while of ensure_connection: a live connection is
\* returned; else one reconnection attempt, which returns the new
\* connection or fails; after max_attempts rounds None is returned.
EnsureConnection ==
    /\ imp.pc = "ensure"
    /\ IF imp.ec.attempt < max_attempts
       THEN \/ /\ imp.conn = "open"
               /\ imp' = AfterEnsure(imp)
            \/ imp' = AfterEnsure([imp EXCEPT !.conn = "open",
                                              !.ec.attempt = @ + 1])
            \/ imp' = [imp EXCEPT !.ec.attempt = @ + 1,
                                  !.conn = IF @ = "none" THEN "none" ELSE "closed"]
       ELSE imp' = AfterEnsureNone(imp)
    /\ UNCHANGED <<resolverVars, jobVars, db>>

\* pd.read_excel and the standardisation of the rows: done, or an exception.
ReadFile ==
    /\ imp.pc = "read"
    /\ \/ imp' = [imp EXCEPT !.pc = "batch_head", !.i = 0,
                             !.connection_check_counter = 0]
       \/ imp' = RaiseInFile(imp)
    /\ UNCHANGED <<resolverVars, jobVars, db>>

\* The head of the while over the batches: the periodic connection check,
\* then the first attempt of the batch; after the last batch the totals.
BatchHead ==
    /\ imp.pc = "batch_head"
    /\ IF imp.i < imp.sizes[imp.f]
       THEN LET m == [imp EXCEPT !.retry_count = 0, !.tries = 0, !.last = NoEvent]
            IN  IF imp.connection_check_counter + 1 >= connection_check_every
                THEN imp' = CallEnsure([m EXCEPT !.connection_check_counter = 0],
                                       imp.conn, "periodic")
                ELSE imp' = [m EXCEPT !.connection_check_counter = @ + 1,
                                      !.pc = "insert"]
       ELSE imp' = [imp EXCEPT !.total_records = @ + imp.file_records,
                               !.total_errors = @ + imp.file_errors,
                               !.last = NoEvent,
                               !.pc = "file", !.f = @ + 1]
    /\ UNCHANGED <<resolverVars, jobVars, db>>

\* One attempt of the batch: committed; or psycopg2.OperationalError; or
\* another exception, after which ROLLBACK TO SAVEPOINT or conn.rollback()
\* succeeds, or both fail and ensure_connection is called.
InsertBatch ==
    /\ imp.pc = "insert"
    /\ LET m == [imp EXCEPT !.tries = @ + 1, !.attempted = @ \cup {imp.i}]
       IN  \/ /\ imp.conn = "open"
              /\ db' = [committed |-> db.committed \cup db.pending \cup {Batch(m)},
                        pending |-> {}]
              /\ imp' = NextBatch([m EXCEPT !.file_records = @ + BatchLen(m),
                                            !.last = Event(m, "committed")])
           \/ /\ db' = [db EXCEPT !.pending = {}]
              /\ imp' = OperationalErrorHandled(
                            [m EXCEPT !.last = Event(m, "operational_error")])
           \/ /\ imp.conn = "open"
              /\ db' = [db EXCEPT !.pending = @ \ {Batch(m)}]
              /\ imp' = OtherErrorHandled([m EXCEPT !.last = Event(m, "other_error")])
           \/ /\ db' = [db EXCEPT !.pending = {}]
              /\ imp' = CallEnsure([m EXCEPT !.last = Event(m, "other_error")],
                                   IF m.conn = "none" THEN "none" ELSE "closed",
                                   "other_error")
    /\ UNCHANGED <<resolverVars, jobVars>>

\* The except of a file: rollback, the error is recorded, ensure_connection.
FileExcept ==
    /\ imp.pc = "file_except"
    /\ db' = [db EXCEPT !.pending = {}]
    /\ imp' = CallEnsure([imp EXCEPT !.errors = Append(@, <<"file", imp.f, 0>>)],
                         imp.conn, "file_except")
    /\ UNCHANGED <<resolverVars, jobVars>>

NextImport ==
    \/ ProcessAndImportData
    \/ FileStart
    \/ EnsureConnection
    \/ ReadFile
    \/ BatchHead
    \/ InsertBatch
    \/ FileExcept

SpecImport == InitImport /\ [][NextImport]_vars

\* The import is one sequential program: it keeps taking steps.
SpecImportFair == SpecImport /\ WF_vars(NextImport)

\* The offsets of the batches of the file being imported.
BatchOffsets == {k \in 0..(imp.sizes[imp.f] - 1) : k % batch_size = 0}

\* C19: after a batch failed with an exception that is no OperationalError
\* (and the connection is there to go on), the committed batches are those
\* committed before and nothing is pending, the rows of the batch are added
\* to the error count and the batch to the error list, and the loop is at
\* the next batch; a file whose loop ends has had every batch attempted.
C19_SavepointRollback ==
    /\ (imp.pc \in {"batch_head", "insert"} /\ imp.last.kind = "other_error") =>
          LET e == imp.last
              len == IF imp.sizes[e.f] - e.i < batch_size
                     THEN imp.sizes[e.f] - e.i ELSE batch_size
          IN  /\ db.committed = e.committed
              /\ db.pending = {}
              /\ imp.file_errors = e.file_errors + len
              /\ Len(imp.errors) = e.errors + 1
              /\ imp.errors[Len(imp.errors)] = <<"batch", e.f, e.i>>
              /\ imp.f = e.f
              /\ imp.i = e.i + batch_size
              /\ imp.pc = "batch_head"
    /\ (imp.pc = "batch_head" /\ imp.i >= imp.sizes[imp.f]) =>
          imp.attempted = BatchOffsets

\* The second batch of a file failed after the first was committed, and a
\* third batch is still to come.
C19_Witness ==
    /\ imp.pc = "batch_head"
    /\ imp.last.kind = "other_error"
    /\ imp.last.committed # {}
    /\ imp.file_records > 0
    /\ imp.i < imp.sizes[imp.f]

\* The counters of the retry loops stay within their limits, and what
\* ensure_connection returned is an open connection or None (None only
\* after max_attempts reconnection attempts).
C20_Bounded ==
    imp.pc # "none" =>
        /\ imp.ec.attempt <= max_attempts
        /\ imp.tries <= max_retry
        /\ imp.retry_count <= max_retry
        /\ imp.pc # "ensure" =>
              /\ imp.conn \in {"open", "none"}
              /\ imp.conn = "none" =>
                    (imp.ec.attempt = max_attempts
                        /\ imp.pc \in {"file_except", "returned"})

\* C20: ensure_connection makes at most 3 reconnection attempts and returns
\* a live connection or None, a batch is attempted at most 3 times, and
\* process_and_import_data eventually returns its summary.
C20_BoundedAndTerminates ==
    [](C20_Bounded) /\ <>(imp.pc = "returned")

\* The import returned after a batch was given up at its third operational
\* error and, later, three reconnection attempts failed.
C20_Witness ==
    /\ imp.pc = "returned"
    /\ imp.dropped > 0
    /\ imp.conn = "none"
    /\ imp.ec.attempt = max_attempts

----------------------------------------------------------------------------
(* Atomicity and frame of load_receita_farmer.                              *)

\* The rows the last load was to insert: the in-scope rows of the two
\* dataframes, tagged, in insertion order.
NewRows ==
    LET inScope(df) == SelectSeq(df, LAMBDA row : RowInScope(row))
        hist == inScope(load.df_prev)
        cur == inScope(load.df_cur)
    IN  [i \in 1..Len(hist) |-> Tagged(hist[i], "historical")]
          \o [i \in 1..Len(cur) |-> Tagged(cur[i], "current")]

\* An INSERT of the last load is refused: two of its rows have the same
\* (mes, fonte, farmer_id).
InsertRaises ==
    \E i, k \in 1..Len(NewRows) :
        i # k /\ UniqueKey(NewRows[i]) = UniqueKey(NewRows[k])

\* The last load got past the table check and a statement after its DELETE,
\* or the commit, failed.
FailedAfterDelete ==
    /\ load.runs > 0
    /\ (Len(load.df_prev) > 0 \/ Len(load.df_cur) > 0)
    /\ load.fault \notin {"connect", "create_table"}
    /\ (load.fault \in {"execute", "commit"} \/ InsertRaises)

\* C21: when a statement after the DELETE of load_receita_farmer fails, the
\* call returns False and the destination table holds exactly the rows it
\* held before the call.
C21_LoadIsAtomic ==
    FailedAfterDelete => (~load.ret /\ table = load.before)

\* The DELETE removed a stored row, the first INSERT put a row in, the
\* second INSERT was refused, and the table is as it was before the call.
C21_Witness ==
    /\ FailedAfterDelete
    /\ load.fault = "none"
    /\ InsertRaises
    /\ \E r \in DOMAIN load.before : RowInScope(r)
    /\ \E i \in 1..Len(load.df_prev) : RowInScope(load.df_prev[i])
    /\ \A i, k \in 1..Len(load.df_prev) : i = k
    /\ table = load.before
    /\ ~load.ret

----------------------------------------------------------------------------
(* The per-client revenue job (src/kpis/farmer/receita/kpi_receita_cliente/ *)
(* main.py and load.py, src/kpis/farmer/kpi_receita_cliente/extract.py and  *)
(* transform.py).  A row of a detail dataframe is (tipo_operacao, client_id,*)
(* nome_cliente, date, farmer_id): date is data_operacao, nome_cliente is   *)
(* clients.name, farmer_id is the farmer the client has now                 *)
(* (clients.farmer_id).  mes and mes_formatado are derived from             *)
(* data_operacao, the measures are copied (NaN as 0); they are left out, as *)
(* are id, created_at and updated_at.                                       *)

\* Bound: the rows one detail query returns.
MaxSourceRows == 1

\* The three sources, in the order process_receita_cliente extracts them.
Tipos == <<"Positivador", "COE", "Operacao Estruturada">>

\* Position of a tipo_operacao in ascending string order.
TipoRank(tipo) ==
    IF tipo = "COE" THEN 1 ELSE IF tipo = "Operacao Estruturada" THEN 2 ELSE 3

\* clients.name of a client: a string is the sequence of its code points
\* ("Z" for client 1, "A" for any other, so that names and ids are not in
\* the same order).
NomeCliente(c) == IF c = 1 THEN <<90>> ELSE <<65>>

\* The rows a detail query may return: the source row joins
\* gammadata.clients, nome_cliente is the client's name and farmer_id the
\* client's current farmer.
DetailRows(cl, tipo) ==
    {[tipo_operacao |-> tipo, client_id |-> c, nome_cliente |-> NomeCliente(c),
      date |-> d, farmer_id |-> cl[c].farmer_id] : c \in DOMAIN cl, d \in Dates}

\* (data_inicio, data_fim) of process_receita_cliente: every date of the
\* model lies in the window.
DataInicio == 1
DataFim == MaxDate

\* analysis.receita_cliente has no UNIQUE constraint: executemany appends.
RECURSIVE executemany_cliente(_, _)
executemany_cliente(t, rows) ==
    IF Len(rows) = 0 THEN t
    ELSE LET r == Head(rows)
         IN  executemany_cliente(
                 [x \in DOMAIN t \cup {r} |->
                     Count(t, x) + (IF x = r THEN 1 ELSE 0)],
                 Tail(rows))

\* DELETE FROM analysis.receita_cliente WHERE data_operacao BETWEEN min_date
\* AND max_date, without the condition on farmer_id.
DeleteFromCliente_any_farmer(t, min_date, max_date, farmer_id) ==
    [r \in {r \in DOMAIN t : ~(min_date <= r.date /\ r.date <= max_date)}
        |-> t[r]]

\* DELETE FROM analysis.receita_cliente WHERE data_operacao BETWEEN min_date
\* AND max_date [AND farmer_id = %s].
DeleteFromCliente(t, min_date, max_date, farmer_id) ==
    [r \in {r \in DOMAIN t :
               ~(/\ min_date <= r.date /\ r.date <= max_date
                 /\ (farmer_id = NULL \/ r.farmer_id = farmer_id))}
        |-> t[r]]

\* The tuples load_receita_cliente inserts: a row whose farmer_id differs
\* from a truthy farmer_id is skipped.
cliente_data_to_insert(df, farmer_id) ==
    SelectSeq(df, LAMBDA row : ~(farmer_id # NULL /\ row.farmer_id # farmer_id))

\* load_receita_cliente(df_detalhamento, farmer_id) on the table t.
load_receita_cliente(t, df_detalhamento, farmer_id, fault) ==
    IF Len(df_detalhamento) = 0
    THEN [ret |-> TRUE, table |-> t]
    ELSE IF fault \in {"connect", "create_table"}
    THEN [ret |-> FALSE, table |-> t]
    ELSE LET ds == {df_detalhamento[i].date : i \in 1..Len(df_detalhamento)}
             deleted == DeleteFromCliente(t, Min(ds), Max(ds), farmer_id)
             inserted == executemany_cliente(deleted,
                             cliente_data_to_insert(df_detalhamento, farmer_id))
         IN  IF fault = "execute"
             THEN [ret |-> FALSE,
                   table |-> DatabaseConnection_exit(t, deleted, TRUE)]
             ELSE IF fault = "commit"
             THEN [ret |-> FALSE, table |-> t]
             ELSE [ret |-> TRUE,
                   table |-> DatabaseConnection_exit(t, inserted, FALSE)]

\* transform_detalhamento_cliente: the non-empty frames concatenated in the
\* order positivador, COE, operacoes estruturadas.
transform_detalhamento_cliente(df_positivador, df_coe, df_op_estruturadas) ==
    df_positivador \o df_coe \o df_op_estruturadas

\* a < b on Python strings: the first code point that differs decides, a
\* proper prefix is smaller.
RECURSIVE StrLess(_, _)
StrLess(a, b) ==
    IF Len(b) = 0 THEN FALSE
    ELSE IF Len(a) = 0 THEN TRUE
    ELSE IF Head(a) # Head(b) THEN Head(a) < Head(b)
    ELSE StrLess(Tail(a), Tail(b))

\* The sort key of prepare_final_dataset: data_operacao descending, then
\* tipo_operacao and nome_cliente ascending.
FinalBefore(a, b) ==
    \/ a.date > b.date
    \/ a.date = b.date /\ TipoRank(a.tipo_operacao) < TipoRank(b.tipo_operacao)
    \/ /\ a.date = b.date /\ a.tipo_operacao = b.tipo_operacao
       /\ StrLess(a.nome_cliente, b.nome_cliente)

\* prepare_final_dataset of the per-client job: the rows sorted by the key,
\* rows with equal keys in the order they had.
RECURSIVE prepare_final_dataset_cliente(_)
prepare_final_dataset_cliente(df) ==
    IF Len(df) = 0 THEN df
    ELSE LET first == Min({i \in 1..Len(df) :
                             \A k \in 1..Len(df) : ~FinalBefore(df[k], df[i])})
         IN  <<df[first]>> \o prepare_final_dataset_cliente(RemoveAt(df, first))

\* The job before main is entered.
ClienteJobStart ==
    [name |-> "kpi_receita_cliente", farmer_id |-> NULL, pc |-> "main",
     dfs |-> <<>>, kept |-> <<>>, df |-> <<>>, done |-> FALSE,
     exit_code |-> 0]

InitCliente ==
    /\ clients \in ClientTables
    /\ transfers \in TransferLogs
    /\ op = "none"
    /\ args = NoArgs
    /\ outcome = "none"
    /\ ret = NULL
    /\ table = EmptyTable
    /\ load = NoLoad
    /\ job = ClienteJobStart
    /\ ImportIdle

\* main() parses --farmer-id and enters process_receita_cliente.
MainCliente ==
    /\ job.pc = "main"
    /\ \E farmer_id \in Farmers \cup {NULL} :
          job' = [job EXCEPT !.farmer_id = farmer_id, !.pc = "extract"]
    /\ UNCHANGED <<resolverVars, table, load, importVars>>

\* main's except: log and return 1.
JobRaised(j) == [j EXCEPT !.pc = "done", !.done = TRUE, !.exit_code = 1]

\* extract_detalhamento_positivador / _coe / _op_estruturadas, one after the
\* other: the query raises (and the function re-raises), or returns rows,
\* which go through filter_data_by_responsibility when they are not empty
\* and farmer_id is truthy.  The filter returns its input when fetching the
\* periods raises.
ExtractDetalhamento ==
    /\ job.pc = "extract"
    /\ LET tipo == Tipos[Len(job.dfs) + 1]
           advance(j, df, kept) ==
               [j EXCEPT !.dfs = Append(@, df), !.kept = @ \o kept,
                         !.pc = IF Len(j.dfs) + 1 = Len(Tipos)
                                THEN "transform" ELSE "extract"]
       IN  \/ job' = JobRaised(job)
           \/ \E df \in SeqsUpTo(DetailRows(clients, tipo), MaxSourceRows) :
                 IF Len(df) = 0 \/ job.farmer_id = NULL
                 THEN job' = advance(job, df, <<>>)
                 ELSE \/ job' = advance(job, df, df)
                      \/ \E fetched \in get_client_farmer_periods(
                                clients, transfers, DataInicio, DataFim) :
                            LET filtered == filter_data_by_responsibility(
                                                df, job.farmer_id, fetched)
                            IN  job' = advance(job, filtered, filtered)
    /\ UNCHANGED <<resolverVars, table, load, importVars>>

\* transform_detalhamento_cliente, then prepare_final_dataset; either may
\* raise.
TransformCliente ==
    /\ job.pc = "transform"
    /\ \/ job' = JobRaised(job)
       \/ job' = [job EXCEPT
                     !.df = prepare_final_dataset_cliente(
                                transform_detalhamento_cliente(
                                    job.dfs[1], job.dfs[2], job.dfs[3])),
                     !.pc = "load"]
    /\ UNCHANGED <<resolverVars, table, load, importVars>>

\* success = load_receita_cliente(df_receita_cliente, args.farmer_id);
\* return 0 if success else 1.
LoadCliente ==
    /\ job.pc = "load"
    /\ \E fault \in Faults :
        LET res == load_receita_cliente(table, job.df, job.farmer_id, fault)
        IN  /\ table' = res.table
            /\ job' = [job EXCEPT !.pc = "done", !.done = TRUE,
                                  !.exit_code = IF res.ret THEN 0 ELSE 1]
    /\ UNCHANGED <<resolverVars, load, importVars>>

NextCliente ==
    \/ MainCliente
    \/ ExtractDetalhamento
    \/ TransformCliente
    \/ LoadCliente

SpecCliente == InitCliente /\ [][NextCliente]_vars

\* How often the row r is among the rows of df.
Occurrences(df, r) == Cardinality({i \in 1..Len(df) : df[i] = r})

\* C22: when the per-client job run for a farmer F ends with exit code 0,
\* every record that filter_data_by_responsibility kept for F is in
\* analysis.receita_cliente, as often as it was kept.
C22_KeptRecordsAreLoaded ==
    (job.name = "kpi_receita_cliente" /\ job.done /\ job.exit_code = 0
        /\ job.farmer_id # NULL) =>
        \A i \in 1..Len(job.kept) :
            Count(table, job.kept[i]) >= Occurrences(job.kept, job.kept[i])

----------------------------------------------------------------------------
(* Accounting of the batch import.                                          *)

\* The insert loop of the current file has ended.
InsertLoopEnded ==
    /\ imp.pc = "batch_head"
    /\ imp.i >= imp.sizes[imp.f]

\* The number of rows of the batch of file f at offset k.
RowsOfBatch(f, k) ==
    IF imp.sizes[f] - k < batch_size THEN imp.sizes[f] - k ELSE batch_size

\* The rows of the batches of B (pairs <<file, offset>>) together.
RECURSIVE RowsIn(_)
RowsIn(B) ==
    IF B = {} THEN 0
    ELSE LET b == CHOOSE x \in B : TRUE
         IN  RowsOfBatch(b[1], b[2]) + RowsIn(B \ {b})

\* The batches of the current file in the error list.
BatchesInErrors ==
    {<<imp.f, k>> : k \in {k \in BatchOffsets :
        \E j \in 1..Len(imp.errors) : imp.errors[j] = <<"batch", imp.f, k>>}}

\* The batches of the current file that are committed.
BatchesCommitted == {b \in db.committed : b[1] = imp.f}

\* C23: when the insert loop of a file ends, every batch of the file is
\* committed and counted in the inserted records, or is in the error list
\* with its rows counted in file_errors (no row of the file failed its
\* standardisation).
C23_EveryBatchAccounted ==
    InsertLoopEnded =>
        /\ \A k \in BatchOffsets :
              <<imp.f, k>> \in BatchesCommitted \cup BatchesInErrors
        /\ imp.file_records = RowsIn(BatchesCommitted)
        /\ imp.file_errors = RowsIn(BatchesInErrors)

\* C24: the total_records of the summary process_and_import_data returns is
\* the number of rows committed to baseserasa.serasa, over all files.
C24_TotalRecordsIsCommitted ==
    imp.pc = "returned" => imp.total_records = RowsIn(db.committed)

----------------------------------------------------------------------------
(* Calls of the three loaders that take a farmer_id: load_receita_farmer,   *)
(* load_receita_cliente and load_fechamento_comissao_farmer                 *)
(* (src/kpis/farmer/comissao/kpi_fechamento_m_presente/load.py).  A row of  *)
(* analysis.fechamento_farmer_m_presente is (mes, farmer_id,                *)
(* is_current_month); the other columns are copied from the dataframe.     *)

FechamentoMeses == {1, 2}

FechamentoRows ==
    [mes : FechamentoMeses, farmer_id : Farmers, is_current_month : BOOLEAN]

\* The rows of analysis.receita_cliente and of a detail dataframe.
ClienteRows ==
    {[tipo_operacao |-> "COE", client_id |-> c, nome_cliente |-> NomeCliente(c),
      date |-> d, farmer_id |-> f] : c \in ClientIds, d \in Dates, f \in Farmers}

\* DELETE FROM analysis.fechamento_farmer_m_presente WHERE mes = %s
\* [AND farmer_id = %s] AND is_current_month = TRUE.
DeleteFromFechamento(t, mes_referencia, farmer_id) ==
    [r \in {r \in DOMAIN t :
               ~(/\ r.mes = mes_referencia
                 /\ (farmer_id = NULL \/ r.farmer_id = farmer_id)
                 /\ r.is_current_month)}
        |-> t[r]]

\* The tuples load_fechamento_comissao_farmer inserts: a row whose
\* farmer_id differs from a truthy farmer_id is skipped.
fechamento_data_to_insert(df, farmer_id) ==
    SelectSeq(df, LAMBDA row : ~(farmer_id # NULL /\ row.farmer_id # farmer_id))

\* The table has no UNIQUE constraint: executemany appends.
RECURSIVE executemany_fechamento(_, _)
executemany_fechamento(t, rows) ==
    IF Len(rows) = 0 THEN t
    ELSE LET r == Head(rows)
         IN  executemany_fechamento(
                 [x \in DOMAIN t \cup {r} |->
                     Count(t, x) + (IF x = r THEN 1 ELSE 0)],
                 Tail(rows))

\* load_fechamento_comissao_farmer(df_fechamento, farmer_id) on the table t:
\* the table check comes before the test for an empty dataframe.
load_fechamento_comissao_farmer(t, df_fechamento, farmer_id, fault) ==
    IF fault \in {"connect", "create_table"}
    THEN [ret |-> FALSE, table |-> t]
    ELSE IF Len(df_fechamento) = 0
    THEN [ret |-> (fault # "commit"), table |-> t]
    ELSE LET mes_referencia ==
                 Min({df_fechamento[i].mes : i \in 1..Len(df_fechamento)})
             deleted == DeleteFromFechamento(t, mes_referencia, farmer_id)
             inserted == executemany_fechamento(deleted,
                             fechamento_data_to_insert(df_fechamento, farmer_id))
         IN  IF fault = "execute"
             THEN [ret |-> FALSE,
                   table |-> DatabaseConnection_exit(t, deleted, TRUE)]
             ELSE IF fault = "commit"
             THEN [ret |-> FALSE, table |-> t]
             ELSE [ret |-> TRUE,
                   table |-> DatabaseConnection_exit(t, inserted, FALSE)]

\* The tables a loader may find, as bags without duplicates.
TablesOf(rows) == {[r \in S |-> 1] : S \in SubsetsUpTo(rows, MaxStored)}

Loaders ==
    {"load_receita_farmer", "load_receita_cliente",
     "load_fechamento_comissao_farmer"}

InitLoaders ==
    /\ clients = <<>>
    /\ transfers = {}
    /\ op = "none"
    /\ args = NoArgs
    /\ outcome = "none"
    /\ ret = NULL
    /\ \E loader \in Loaders :
          /\ load = [NoLoad EXCEPT !.loader = loader]
          /\ table \in (IF loader = "load_receita_farmer" THEN InitialTables
                         ELSE IF loader = "load_receita_cliente"
                         THEN TablesOf(ClienteRows)
                         ELSE TablesOf(FechamentoRows))
    /\ job = NoJob
    /\ ImportIdle

\* A call of load_receita_farmer on its table.
LoadersReceitaFarmer ==
    /\ load.loader = "load_receita_farmer"
    /\ LoadReceitaFarmer

\* A call of load_receita_cliente.
LoadReceitaCliente ==
    /\ load.runs = 0
    /\ load.loader = "load_receita_cliente"
    /\ \E df \in SeqsUpTo(ClienteRows, MaxRows),
          farmer_id \in Farmers \cup {NULL}, fault \in Faults :
        LET res == load_receita_cliente(table, df, farmer_id, fault)
        IN  /\ table' = res.table
            /\ load' = [load EXCEPT !.runs = 1, !.df_cur = df,
                                    !.farmer_id = farmer_id, !.fault = fault,
                                    !.ret = res.ret, !.before = table,
                                    !.first_ret = res.ret]
    /\ UNCHANGED <<resolverVars, job, importVars>>

\* A call of load_fechamento_comissao_farmer.
LoadFechamentoComissaoFarmer ==
    /\ load.runs = 0
    /\ load.loader = "load_fechamento_comissao_farmer"
    /\ \E df \in SeqsUpTo(FechamentoRows, MaxRows),
          farmer_id \in Farmers \cup {NULL}, fault \in Faults :
        LET res == load_fechamento_comissao_farmer(table, df, farmer_id, fault)
        IN  /\ table' = res.table
            /\ load' = [load EXCEPT !.runs = 1, !.df_cur = df,
                                    !.farmer_id = farmer_id, !.fault = fault,
                                    !.ret = res.ret, !.before = table,
                                    !.first_ret = res.ret]
    /\ UNCHANGED <<resolverVars, job, importVars>>

NextLoaders ==
    \/ LoadersReceitaFarmer
    \/ LoadReceitaCliente
    \/ LoadFechamentoComissaoFarmer

SpecLoaders == InitLoaders /\ [][NextLoaders]_vars

\* C25: after a loader was called with a farmer_id F, every row of another
\* farmer is in the destination table as often as before the call.
C25_OtherFarmersUntouched ==
    (load.runs > 0 /\ load.farmer_id # NULL) =>
        \A r \in DOMAIN table \cup DOMAIN load.before :
            r.farmer_id # load.farmer_id =>
                Count(table, r) = Count(load.before, r)

\* load_receita_cliente returned True for farmer F: the dataframe had a row
\* of another farmer, the table had rows of F and of another farmer within
\* the dates of the dataframe, and F's stored row was replaced.
C25_Witness ==
    /\ load.runs > 0
    /\ load.loader = "load_receita_cliente"
    /\ load.farmer_id # NULL
    /\ load.ret
    /\ \E i \in 1..Len(load.df_cur) : load.df_cur[i].farmer_id # load.farmer_id
    /\ \E i \in 1..Len(load.df_cur) : load.df_cur[i].farmer_id = load.farmer_id
    /\ \E r \in DOMAIN load.before :
          /\ r.farmer_id # load.farmer_id
          /\ \E i, k \in 1..Len(load.df_cur) :
                load.df_cur[i].date <= r.date /\ r.date <= load.df_cur[k].date
    /\ \E r \in DOMAIN load.before :
          r.farmer_id = load.farmer_id /\ r \notin DOMAIN table

----------------------------------------------------------------------------
(* The past-months commission closing job                                   *)
(* (src/kpis/farmer/comissao/kpi_fechamento_m_passado/main.py).  A month is *)
(* [year, month], the first day of it.  main uses only the result of the    *)
(* three functions process_mes_fechamento calls: each returns or raises,    *)
(* and the loader returns True or False.  step_raised and load_invoked      *)
(* record that an extract or prepare call raised, and that the loader was   *)
(* called, in some month of the run.                                        *)

\* Bound: the largest --months-back.
MaxMonthsBack == 13

\* The year of datetime.now() in the model.
ThisYear == 2025

Month(year, month) == [year |-> year, month |-> month]

\* The current months the job may run in.
CurrentMonths == {Month(ThisYear, m) : m \in 1..12}

\* datetime.replace(year=..., month=...): ValueError unless month is in
\* 1..12.
Replace(year, month) ==
    IF month \in 1..12
    THEN [raised |-> FALSE, value |-> Month(year, month)]
    ELSE [raised |-> TRUE, value |-> Month(year, month)]

\* mes_ref for the i-th round of the loop over range(1, months_back + 1).
mes_ref(mes_atual, i) ==
    IF mes_atual.month <= i
    THEN Replace(mes_atual.year - 1, mes_atual.month + 12 - i)
    ELSE Replace(mes_atual.year, mes_atual.month - i)

\* meses_a_processar as the loop builds it; raised when a round raises
\* ValueError, which leaves main through its outer except.
meses_a_processar(mes_atual, months_back) ==
    LET n == IF months_back < 0 THEN 0 ELSE months_back
    IN  IF \E i \in 1..n : mes_ref(mes_atual, i).raised
        THEN [raised |-> TRUE, meses |-> <<>>]
        ELSE [raised |-> FALSE,
              meses |-> [i \in 1..n |-> mes_ref(mes_atual, i).value]]

\* --specific-month: absent, a well-formed YYYY-MM, or a string that makes
\* int() or datetime() raise ValueError.
SpecificMonths ==
    {[given |-> FALSE, valid |-> TRUE, value |-> Month(ThisYear, 1)]}
      \cup {[given |-> TRUE, valid |-> TRUE, value |-> Month(ThisYear - 1, m)] :
                m \in {3, 12}}
      \cup {[given |-> TRUE, valid |-> FALSE, value |-> Month(ThisYear, 13)]}

FechamentoJobStart ==
    [name |-> "kpi_fechamento_m_passado", pc |-> "main",
     mes_atual |-> Month(ThisYear, 1), months_back |-> 0,
     specific_given |-> FALSE, built |-> FALSE, raised |-> FALSE,
     meses |-> <<>>, k |-> 0, success_overall |-> TRUE,
     processed |-> <<>>, loaded |-> <<>>, failed |-> 0,
     step_raised |-> FALSE, load_invoked |-> FALSE,
     done |-> FALSE, exit_code |-> 0]

InitFechamento ==
    /\ clients = <<>>
    /\ transfers = {}
    /\ op = "none"
    /\ args = NoArgs
    /\ outcome = "none"
    /\ ret = NULL
    /\ table = EmptyTable
    /\ load = NoLoad
    /\ job = FechamentoJobStart
    /\ ImportIdle

\* main returns code.
FechamentoReturn(j, code) ==
    [j EXCEPT !.pc = "done", !.done = TRUE, !.exit_code = code]

\* main up to the loop over the months: the list is the specific month, or
\* the months_back months before the current one.
MainFechamento ==
    /\ job.name = "kpi_fechamento_m_passado"
    /\ job.pc = "main"
    /\ \E mes_atual \in CurrentMonths, months_back \in (-1)..MaxMonthsBack,
          specific_month \in SpecificMonths :
        LET j == [job EXCEPT !.mes_atual = mes_atual,
                             !.months_back = months_back,
                             !.specific_given = specific_month.given]
            built == meses_a_processar(mes_atual, months_back)
        IN  IF specific_month.given
            THEN IF specific_month.valid
                 THEN job' = [j EXCEPT !.meses = <<specific_month.value>>,
                                       !.built = TRUE, !.k = 1, !.pc = "loop"]
                 ELSE job' = FechamentoReturn(j, 1)
            ELSE IF built.raised
                 THEN job' = FechamentoReturn([j EXCEPT !.raised = TRUE], 1)
                 ELSE job' = [j EXCEPT !.meses = built.meses, !.built = TRUE,
                                       !.k = 1, !.pc = "loop"]
    /\ UNCHANGED <<resolverVars, table, load, importVars>>

\* The head of "for mes in meses_a_processar", and the return after it.
LoopFechamento ==
    /\ job.name = "kpi_fechamento_m_passado"
    /\ job.pc = "loop"
    /\ IF job.k <= Len(job.meses)
       THEN job' = [job EXCEPT !.pc = "extract"]
       ELSE job' = FechamentoReturn(job, IF job.success_overall THEN 0 ELSE 1)
    /\ UNCHANGED <<resolverVars, table, load, importVars>>

\* A failed month that ends the loop.
MonthFailed_aborts(j) ==
    FechamentoReturn([j EXCEPT !.success_overall = FALSE,
                               !.processed = Append(@, j.meses[j.k]),
                               !.failed = @ + 1], 1)

\* process_mes_fechamento returned False (its except, or the loader's
\* result): success_overall = False and the loop goes on.
MonthFailed(j) ==
    [j EXCEPT !.success_overall = FALSE,
              !.processed = Append(@, j.meses[j.k]),
              !.failed = @ + 1,
              !.k = @ + 1, !.pc = "loop"]

\* extract_fechamento_passado(mes_referencia, farmer_id, employee_name)
\* returns, or raises into the except of process_mes_fechamento.
ExtractFechamentoPassado ==
    /\ job.name = "kpi_fechamento_m_passado"
    /\ job.pc = "extract"
    /\ \/ job' = [job EXCEPT !.pc = "prepare"]
       \/ job' = [MonthFailed(job) EXCEPT !.step_raised = TRUE]
    /\ UNCHANGED <<resolverVars, table, load, importVars>>

\* prepare_fechamento_dataset(df_fechamento, mes_referencia) returns, or
\* raises into the except of process_mes_fechamento.
PrepareFechamentoDataset ==
    /\ job.name = "kpi_fechamento_m_passado"
    /\ job.pc = "prepare"
    /\ \/ job' = [job EXCEPT !.pc = "load"]
       \/ job' = [MonthFailed(job) EXCEPT !.step_raised = TRUE]
    /\ UNCHANGED <<resolverVars, table, load, importVars>>

\* success = load_fechamento_comissao_farmer(df_final, farmer_id): True,
\* or False (an exception of the loader gives False as well).
LoadFechamento ==
    /\ job.name = "kpi_fechamento_m_passado"
    /\ job.pc = "load"
    /\ \/ job' = [job EXCEPT !.processed = Append(@, job.meses[job.k]),
                              !.loaded = Append(@, job.meses[job.k]),
                              !.load_invoked = TRUE,
                              !.k = @ + 1, !.pc = "loop"]
       \/ job' = [MonthFailed(job) EXCEPT !.load_invoked = TRUE]
    /\ UNCHANGED <<resolverVars, table, load, importVars>>

NextFechamento ==
    \/ MainFechamento
    \/ LoopFechamento
    \/ ExtractFechamentoPassado
    \/ PrepareFechamentoDataset
    \/ LoadFechamento

SpecFechamento == InitFechamento /\ [][NextFechamento]_vars

\* The first n entries of a sequence.
Prefix(s, n) == [i \in 1..n |-> s[i]]

\* C26: the months are processed in list order, one after the other,
\* whether or not an earlier month failed; when main returns after the
\* loop, every month of the list was processed, and the exit code is 1 if
\* at least one month failed and 0 if none did.
C26_MonthsIndependent ==
    job.built =>
        /\ Len(job.processed) <= Len(job.meses)
        /\ job.processed = Prefix(job.meses, Len(job.processed))
        /\ job.failed + Len(job.loaded) = Len(job.processed)
        /\ job.done =>
              /\ job.processed = job.meses
              /\ job.exit_code = (IF job.failed > 0 THEN 1 ELSE 0)

\* main returned 1 after three or more months: the first month failed, a
\* later month was loaded.
C26_Witness ==
    /\ job.built
    /\ job.done
    /\ job.exit_code = 1
    /\ Len(job.meses) >= 3
    /\ Len(job.loaded) >= 1
    /\ job.meses[1] # job.loaded[1]
    /\ job.meses[Len(job.meses)] = job.loaded[Len(job.loaded)]

\* The month i months before the month m, by counting months from year 0.
MonthsBefore(m, i) ==
    LET idx == m.year * 12 + (m.month - 1) - i
    IN  Month(idx \div 12, (idx % 12) + 1)

\* C27: without --specific-month, building the list of months never
\* fails, and the list is the months_back months before the current
\* month, nearest first, all distinct.
C27_MonthListIsPrecedingMonths ==
    (job.name = "kpi_fechamento_m_passado" /\ job.pc # "main"
        /\ ~job.specific_given) =>
        /\ ~job.raised
        /\ job.built
        /\ Len(job.meses) = (IF job.months_back < 0 THEN 0 ELSE job.months_back)
        /\ \A i \in 1..Len(job.meses) :
              job.meses[i] = MonthsBefore(job.mes_atual, i)
        /\ \A i, k \in 1..Len(job.meses) :
              job.meses[i] = job.meses[k] => i = k

----------------------------------------------------------------------------
(* The KPI jobs together: a run is a run of one of the mains.               *)

InitKpiJobs == InitJob \/ InitFechamento

NextKpiJobs == NextJob \/ NextFechamento

SpecKpiJobs == InitKpiJobs /\ [][NextKpiJobs]_vars

\* In the closing job: the loader is called only when no extract or prepare
\* call of the run raised; when one raised the loader is not called and
\* main returned 1; and main returns 0 exactly when the loader was called
\* and returned True every time.
ClosingInOrder ==
    job.name = "kpi_fechamento_m_passado" =>
        /\ job.load_invoked => ~job.step_raised
        /\ job.step_raised =>
              (~job.load_invoked /\ job.done /\ job.exit_code = 1)
        /\ job.done =>
              (job.exit_code = 0 <=>
                  (job.load_invoked /\ Len(job.loaded) = Len(job.processed)))
        /\ job.done => job.exit_code \in {0, 1}

\* C18: every KPI job runs in the order extract, transform, load: the
\* loader is called only after all extract and transform calls returned; if
\* one of them raises the loader is never called, the table is untouched
\* and main returns 1; main returns 0 if and only if the loader returned
\* True.
C18_ExtractTransformLoad ==
    /\ SinglePassInOrder
    /\ ClosingInOrder

----------------------------------------------------------------------------
(* A load of empty input.                                                   *)

\* The last call was of load_receita_farmer or load_receita_cliente, with
\* no row in its dataframes.
LoadedEmpty ==
    /\ load.runs > 0
    /\ load.loader \in {"load_receita_farmer", "load_receita_cliente"}
    /\ Len(load.df_prev) = 0
    /\ Len(load.df_cur) = 0

\* C28: load_receita_farmer (with both dataframes empty) and
\* load_receita_cliente (with an empty dataframe) return True and leave
\* the destination table as it was, whatever the state of the database
\* connection.
C28_EmptyLoadChangesNothing ==
    LoadedEmpty => (load.ret /\ table = load.before)

\* load_receita_farmer was called with empty dataframes for a farmer who has
\* a row in the table, while the database could not be reached.
C28_Witness ==
    /\ LoadedEmpty
    /\ load.loader = "load_receita_farmer"
    /\ load.fault = "connect"
    /\ load.farmer_id # NULL
    /\ \E r \in DOMAIN table : r.farmer_id = load.farmer_id
    /\ load.ret

----------------------------------------------------------------------------
(* add_responsible_farmer_info (src/utils/client_responsibility.py).        *)

\* get_farmer_for_row(row): the farmer_id of the first fetched period of
\* the row's client that contains the row's date, else None.
get_farmer_for_row(row, periods) ==
    LET client_periods ==
            SelectSeq(periods, LAMBDA p : p.client_id = row.client_id)
        hits == {i \in 1..Len(client_periods) :
                    PeriodContains(client_periods[i], row.date)}
    IN  IF Len(client_periods) = 0 THEN NULL
        ELSE IF hits = {} THEN NULL
        ELSE client_periods[Min(hits)].farmer_id

\* add_responsible_farmer_info, after the periods are fetched: the column
\* responsible_farmer_id is added to every row (None everywhere when no
\* period was fetched).
add_responsible_farmer_info(df, periods) ==
    [i \in 1..Len(df) |->
        [client_id |-> df[i].client_id, date |-> df[i].date,
         responsible_farmer_id |->
            IF Len(periods) = 0 THEN NULL
            ELSE get_farmer_for_row(df[i], periods)]]

\* A call of add_responsible_farmer_info(df, date_column): an empty df is
\* returned as it is, and so is a df without the column client_id or
\* date_column; the periods are fetched for the minimum and maximum of the
\* date column; if that raises, or anything else in the try block does, df
\* is returned without the two columns.
AddResponsibleFarmerInfo ==
    /\ op = "none"
    /\ \E df \in Dataframes, fault \in CallFaults :
        /\ op' = "add_responsible_farmer_info"
        /\ args' = [db_fails |-> fault.db_fails, raises |-> fault.raises,
                    df |-> df]
        /\ outcome' = "returned"
        /\ IF Len(df) = 0 THEN ret' = df
           ELSE IF ~HasColumns(df) THEN ret' = df
           ELSE IF fault.db_fails \/ fault.raises THEN ret' = df
           ELSE LET r == FilterRange(df, <<>>)
                IN  \E fetched \in
                        get_client_farmer_periods(clients, transfers, r[1], r[2]) :
                      ret' = add_responsible_farmer_info(df, fetched)
        /\ UNCHANGED <<clients, transfers, jobVars, importVars>>

NextInfo ==
    \/ AddResponsibleFarmerInfo
    \/ GetResponsibleFarmer

SpecInfo == Init /\ [][NextInfo]_vars

\* add_responsible_farmer_info returned for a non-empty dataframe with
\* both columns, after fetching the periods, nothing having raised.
InfoAdded ==
    /\ op = "add_responsible_farmer_info"
    /\ ~args.db_fails
    /\ ~args.raises
    /\ Len(args.df) > 0
    /\ HasColumns(args.df)

\* C29: add_responsible_farmer_info keeps the rows and their order, and
\* the responsible_farmer_id of each row is what get_responsible_farmer
\* returns for the row's client and date over the unrestricted periods.
C29_InfoEqualsLookup ==
    InfoAdded =>
        /\ Len(ret) = Len(args.df)
        /\ \A i \in 1..Len(ret) :
              /\ ret[i].client_id = args.df[i].client_id
              /\ ret[i].date = args.df[i].date
              /\ \A df_periods \in
                        get_client_farmer_periods(clients, transfers, NULL, NULL) :
                    ret[i].responsible_farmer_id =
                        get_responsible_farmer(args.df[i].client_id,
                                               args.df[i].date, df_periods)

============================================================================
